---- MODULE Spec2Model ----
(***************************************************************************)
(* A model of mpiperfviewer's core: the rank-file codec, the aggregation   *)
(* engine (WorldData / ComponentData), the locality resolver and the       *)
(* filter engine.                                                          *)
(*                                                                         *)
(* Conventions                                                             *)
(*   - Python's None is the empty tuple <<>>, a present value x is <<x>>.  *)
(*   - A Python str is a sequence of one-character strings.                *)
(*   - A Python dict is a sequence of <<key, value>> pairs with distinct   *)
(*     keys, in insertion order.                                           *)
(*   - A raised exception is a record [kind, names], names being the rank  *)
(*     and peer numbers the message prints.                                *)
(***************************************************************************)
EXTENDS Integers, Sequences, FiniteSets, TLC

\* ------------------------------------------------------------------ bounds

\* Number of rank files in the source directory is at most MaxProcs.
MaxProcs == 2

\* The callers hold at most MaxTables size/tag tables at a time, so the weak
\* caches hold at most that many.
MaxTables == 2

\* ---------------------------------------------------------------- options

None == <<>>
Some(x) == <<x>>
IsNone(o) == o = <<>>
Get(o) == o[1]

\* A local name: x is computed once and F reads it.
Bind(x, F(_)) == F(x)

\* ---------------------------------------------------------------- strings

\* A character is a string of the model: an ASCII character is written as
\* itself (with the escapes \t, \n, \r, \f), any other by its code point, as
\* in "U+0663" for ARABIC-INDIC DIGIT THREE.

Digits == <<"0", "1", "2", "3", "4", "5", "6", "7", "8", "9">>

\* The decimal digits of Unicode (category Nd, Unicode 15.0 of Python 3.12):
\* 68 runs of ten characters, a run a row, in the order of their values.
DigitScripts ==
    <<
      Digits,
      <<"U+0660", "U+0661", "U+0662", "U+0663", "U+0664", "U+0665", "U+0666", "U+0667", "U+0668", "U+0669">>,
      <<"U+06F0", "U+06F1", "U+06F2", "U+06F3", "U+06F4", "U+06F5", "U+06F6", "U+06F7", "U+06F8", "U+06F9">>,
      <<"U+07C0", "U+07C1", "U+07C2", "U+07C3", "U+07C4", "U+07C5", "U+07C6", "U+07C7", "U+07C8", "U+07C9">>,
      <<"U+0966", "U+0967", "U+0968", "U+0969", "U+096A", "U+096B", "U+096C", "U+096D", "U+096E", "U+096F">>,
      <<"U+09E6", "U+09E7", "U+09E8", "U+09E9", "U+09EA", "U+09EB", "U+09EC", "U+09ED", "U+09EE", "U+09EF">>,
      <<"U+0A66", "U+0A67", "U+0A68", "U+0A69", "U+0A6A", "U+0A6B", "U+0A6C", "U+0A6D", "U+0A6E", "U+0A6F">>,
      <<"U+0AE6", "U+0AE7", "U+0AE8", "U+0AE9", "U+0AEA", "U+0AEB", "U+0AEC", "U+0AED", "U+0AEE", "U+0AEF">>,
      <<"U+0B66", "U+0B67", "U+0B68", "U+0B69", "U+0B6A", "U+0B6B", "U+0B6C", "U+0B6D", "U+0B6E", "U+0B6F">>,
      <<"U+0BE6", "U+0BE7", "U+0BE8", "U+0BE9", "U+0BEA", "U+0BEB", "U+0BEC", "U+0BED", "U+0BEE", "U+0BEF">>,
      <<"U+0C66", "U+0C67", "U+0C68", "U+0C69", "U+0C6A", "U+0C6B", "U+0C6C", "U+0C6D", "U+0C6E", "U+0C6F">>,
      <<"U+0CE6", "U+0CE7", "U+0CE8", "U+0CE9", "U+0CEA", "U+0CEB", "U+0CEC", "U+0CED", "U+0CEE", "U+0CEF">>,
      <<"U+0D66", "U+0D67", "U+0D68", "U+0D69", "U+0D6A", "U+0D6B", "U+0D6C", "U+0D6D", "U+0D6E", "U+0D6F">>,
      <<"U+0DE6", "U+0DE7", "U+0DE8", "U+0DE9", "U+0DEA", "U+0DEB", "U+0DEC", "U+0DED", "U+0DEE", "U+0DEF">>,
      <<"U+0E50", "U+0E51", "U+0E52", "U+0E53", "U+0E54", "U+0E55", "U+0E56", "U+0E57", "U+0E58", "U+0E59">>,
      <<"U+0ED0", "U+0ED1", "U+0ED2", "U+0ED3", "U+0ED4", "U+0ED5", "U+0ED6", "U+0ED7", "U+0ED8", "U+0ED9">>,
      <<"U+0F20", "U+0F21", "U+0F22", "U+0F23", "U+0F24", "U+0F25", "U+0F26", "U+0F27", "U+0F28", "U+0F29">>,
      <<"U+1040", "U+1041", "U+1042", "U+1043", "U+1044", "U+1045", "U+1046", "U+1047", "U+1048", "U+1049">>,
      <<"U+1090", "U+1091", "U+1092", "U+1093", "U+1094", "U+1095", "U+1096", "U+1097", "U+1098", "U+1099">>,
      <<"U+17E0", "U+17E1", "U+17E2", "U+17E3", "U+17E4", "U+17E5", "U+17E6", "U+17E7", "U+17E8", "U+17E9">>,
      <<"U+1810", "U+1811", "U+1812", "U+1813", "U+1814", "U+1815", "U+1816", "U+1817", "U+1818", "U+1819">>,
      <<"U+1946", "U+1947", "U+1948", "U+1949", "U+194A", "U+194B", "U+194C", "U+194D", "U+194E", "U+194F">>,
      <<"U+19D0", "U+19D1", "U+19D2", "U+19D3", "U+19D4", "U+19D5", "U+19D6", "U+19D7", "U+19D8", "U+19D9">>,
      <<"U+1A80", "U+1A81", "U+1A82", "U+1A83", "U+1A84", "U+1A85", "U+1A86", "U+1A87", "U+1A88", "U+1A89">>,
      <<"U+1A90", "U+1A91", "U+1A92", "U+1A93", "U+1A94", "U+1A95", "U+1A96", "U+1A97", "U+1A98", "U+1A99">>,
      <<"U+1B50", "U+1B51", "U+1B52", "U+1B53", "U+1B54", "U+1B55", "U+1B56", "U+1B57", "U+1B58", "U+1B59">>,
      <<"U+1BB0", "U+1BB1", "U+1BB2", "U+1BB3", "U+1BB4", "U+1BB5", "U+1BB6", "U+1BB7", "U+1BB8", "U+1BB9">>,
      <<"U+1C40", "U+1C41", "U+1C42", "U+1C43", "U+1C44", "U+1C45", "U+1C46", "U+1C47", "U+1C48", "U+1C49">>,
      <<"U+1C50", "U+1C51", "U+1C52", "U+1C53", "U+1C54", "U+1C55", "U+1C56", "U+1C57", "U+1C58", "U+1C59">>,
      <<"U+A620", "U+A621", "U+A622", "U+A623", "U+A624", "U+A625", "U+A626", "U+A627", "U+A628", "U+A629">>,
      <<"U+A8D0", "U+A8D1", "U+A8D2", "U+A8D3", "U+A8D4", "U+A8D5", "U+A8D6", "U+A8D7", "U+A8D8", "U+A8D9">>,
      <<"U+A900", "U+A901", "U+A902", "U+A903", "U+A904", "U+A905", "U+A906", "U+A907", "U+A908", "U+A909">>,
      <<"U+A9D0", "U+A9D1", "U+A9D2", "U+A9D3", "U+A9D4", "U+A9D5", "U+A9D6", "U+A9D7", "U+A9D8", "U+A9D9">>,
      <<"U+A9F0", "U+A9F1", "U+A9F2", "U+A9F3", "U+A9F4", "U+A9F5", "U+A9F6", "U+A9F7", "U+A9F8", "U+A9F9">>,
      <<"U+AA50", "U+AA51", "U+AA52", "U+AA53", "U+AA54", "U+AA55", "U+AA56", "U+AA57", "U+AA58", "U+AA59">>,
      <<"U+ABF0", "U+ABF1", "U+ABF2", "U+ABF3", "U+ABF4", "U+ABF5", "U+ABF6", "U+ABF7", "U+ABF8", "U+ABF9">>,
      <<"U+FF10", "U+FF11", "U+FF12", "U+FF13", "U+FF14", "U+FF15", "U+FF16", "U+FF17", "U+FF18", "U+FF19">>,
      <<"U+104A0", "U+104A1", "U+104A2", "U+104A3", "U+104A4", "U+104A5", "U+104A6", "U+104A7", "U+104A8", "U+104A9">>,
      <<"U+10D30", "U+10D31", "U+10D32", "U+10D33", "U+10D34", "U+10D35", "U+10D36", "U+10D37", "U+10D38", "U+10D39">>,
      <<"U+11066", "U+11067", "U+11068", "U+11069", "U+1106A", "U+1106B", "U+1106C", "U+1106D", "U+1106E", "U+1106F">>,
      <<"U+110F0", "U+110F1", "U+110F2", "U+110F3", "U+110F4", "U+110F5", "U+110F6", "U+110F7", "U+110F8", "U+110F9">>,
      <<"U+11136", "U+11137", "U+11138", "U+11139", "U+1113A", "U+1113B", "U+1113C", "U+1113D", "U+1113E", "U+1113F">>,
      <<"U+111D0", "U+111D1", "U+111D2", "U+111D3", "U+111D4", "U+111D5", "U+111D6", "U+111D7", "U+111D8", "U+111D9">>,
      <<"U+112F0", "U+112F1", "U+112F2", "U+112F3", "U+112F4", "U+112F5", "U+112F6", "U+112F7", "U+112F8", "U+112F9">>,
      <<"U+11450", "U+11451", "U+11452", "U+11453", "U+11454", "U+11455", "U+11456", "U+11457", "U+11458", "U+11459">>,
      <<"U+114D0", "U+114D1", "U+114D2", "U+114D3", "U+114D4", "U+114D5", "U+114D6", "U+114D7", "U+114D8", "U+114D9">>,
      <<"U+11650", "U+11651", "U+11652", "U+11653", "U+11654", "U+11655", "U+11656", "U+11657", "U+11658", "U+11659">>,
      <<"U+116C0", "U+116C1", "U+116C2", "U+116C3", "U+116C4", "U+116C5", "U+116C6", "U+116C7", "U+116C8", "U+116C9">>,
      <<"U+11730", "U+11731", "U+11732", "U+11733", "U+11734", "U+11735", "U+11736", "U+11737", "U+11738", "U+11739">>,
      <<"U+118E0", "U+118E1", "U+118E2", "U+118E3", "U+118E4", "U+118E5", "U+118E6", "U+118E7", "U+118E8", "U+118E9">>,
      <<"U+11950", "U+11951", "U+11952", "U+11953", "U+11954", "U+11955", "U+11956", "U+11957", "U+11958", "U+11959">>,
      <<"U+11C50", "U+11C51", "U+11C52", "U+11C53", "U+11C54", "U+11C55", "U+11C56", "U+11C57", "U+11C58", "U+11C59">>,
      <<"U+11D50", "U+11D51", "U+11D52", "U+11D53", "U+11D54", "U+11D55", "U+11D56", "U+11D57", "U+11D58", "U+11D59">>,
      <<"U+11DA0", "U+11DA1", "U+11DA2", "U+11DA3", "U+11DA4", "U+11DA5", "U+11DA6", "U+11DA7", "U+11DA8", "U+11DA9">>,
      <<"U+11F50", "U+11F51", "U+11F52", "U+11F53", "U+11F54", "U+11F55", "U+11F56", "U+11F57", "U+11F58", "U+11F59">>,
      <<"U+16A60", "U+16A61", "U+16A62", "U+16A63", "U+16A64", "U+16A65", "U+16A66", "U+16A67", "U+16A68", "U+16A69">>,
      <<"U+16AC0", "U+16AC1", "U+16AC2", "U+16AC3", "U+16AC4", "U+16AC5", "U+16AC6", "U+16AC7", "U+16AC8", "U+16AC9">>,
      <<"U+16B50", "U+16B51", "U+16B52", "U+16B53", "U+16B54", "U+16B55", "U+16B56", "U+16B57", "U+16B58", "U+16B59">>,
      <<"U+1D7CE", "U+1D7CF", "U+1D7D0", "U+1D7D1", "U+1D7D2", "U+1D7D3", "U+1D7D4", "U+1D7D5", "U+1D7D6", "U+1D7D7">>,
      <<"U+1D7D8", "U+1D7D9", "U+1D7DA", "U+1D7DB", "U+1D7DC", "U+1D7DD", "U+1D7DE", "U+1D7DF", "U+1D7E0", "U+1D7E1">>,
      <<"U+1D7E2", "U+1D7E3", "U+1D7E4", "U+1D7E5", "U+1D7E6", "U+1D7E7", "U+1D7E8", "U+1D7E9", "U+1D7EA", "U+1D7EB">>,
      <<"U+1D7EC", "U+1D7ED", "U+1D7EE", "U+1D7EF", "U+1D7F0", "U+1D7F1", "U+1D7F2", "U+1D7F3", "U+1D7F4", "U+1D7F5">>,
      <<"U+1D7F6", "U+1D7F7", "U+1D7F8", "U+1D7F9", "U+1D7FA", "U+1D7FB", "U+1D7FC", "U+1D7FD", "U+1D7FE", "U+1D7FF">>,
      <<"U+1E140", "U+1E141", "U+1E142", "U+1E143", "U+1E144", "U+1E145", "U+1E146", "U+1E147", "U+1E148", "U+1E149">>,
      <<"U+1E2F0", "U+1E2F1", "U+1E2F2", "U+1E2F3", "U+1E2F4", "U+1E2F5", "U+1E2F6", "U+1E2F7", "U+1E2F8", "U+1E2F9">>,
      <<"U+1E4F0", "U+1E4F1", "U+1E4F2", "U+1E4F3", "U+1E4F4", "U+1E4F5", "U+1E4F6", "U+1E4F7", "U+1E4F8", "U+1E4F9">>,
      <<"U+1E950", "U+1E951", "U+1E952", "U+1E953", "U+1E954", "U+1E955", "U+1E956", "U+1E957", "U+1E958", "U+1E959">>,
      <<"U+1FBF0", "U+1FBF1", "U+1FBF2", "U+1FBF3", "U+1FBF4", "U+1FBF5", "U+1FBF6", "U+1FBF7", "U+1FBF8", "U+1FBF9">>
    >>

\* The value of every decimal digit.
DigitValues ==
    [c \in UNION {{DigitScripts[k][i] : i \in 1..10} : k \in 1..Len(DigitScripts)} |->
        (CHOOSE i \in 1..10 : \E k \in 1..Len(DigitScripts) : DigitScripts[k][i] = c) - 1]

\* str.isdecimal of one character, which is also \d of a str pattern
IsDigit(c) == c \in DOMAIN DigitValues

DigitVal(c) == DigitValues[c]

\* sys.get_int_max_str_digits(): int() of a text of more digits raises
\* ValueError.
INT_MAX_STR_DIGITS == 4300

\* The characters int() passes over around a number: the whitespace of C
\* among the ASCII characters, the Unicode whitespace above them.
Whitespace ==
    {" ", "\t", "\n", "\r", "\f",
     "U+000B", "U+0085",
     "U+00A0", "U+1680", "U+2000", "U+2001", "U+2002", "U+2003",
     "U+2004", "U+2005", "U+2006", "U+2007", "U+2008", "U+2009",
     "U+200A", "U+2028", "U+2029", "U+202F", "U+205F", "U+3000"}

RECURSIVE NatToStr(_)
NatToStr(n) ==
    IF n < 10 THEN <<Digits[n + 1]>>
    ELSE NatToStr(n \div 10) \o <<Digits[(n % 10) + 1]>>

\* str(n) of a Python int
IntToStr(n) == IF n < 0 THEN <<"-">> \o NatToStr(-n) ELSE NatToStr(n)

\* The value of the digits of s, the "_" between them passed over.
\* Zeros in front of a value of 0 leave it 0: the sum starts after them.
DigitsVal(s, acc) ==
    LET ds == SelectSeq(s, IsDigit)
        nz == {i \in 1..Len(ds) : DigitVal(ds[i]) # 0}
        lead == IF acc # 0 THEN 0
                ELSE IF nz = {} THEN Len(ds)
                ELSE (CHOOSE i \in nz : \A j \in nz : i <= j) - 1
        val[i \in lead..Len(ds)] ==
            IF i = lead THEN acc ELSE val[i - 1] * 10 + DigitVal(ds[i])
    IN  val[Len(ds)]

\* \d+ : one digit or more
AllDigits(s) == s # <<>> /\ \A i \in 1..Len(s) : IsDigit(s[i])

\* The digits of an integer literal of int(): digits with single "_" between
\* them, none at either end.
DigitsGrouped(s) ==
    /\ s # <<>>
    /\ \A i \in 1..Len(s) : IsDigit(s[i]) \/ s[i] = "_"
    /\ IsDigit(s[1])
    /\ IsDigit(s[Len(s)])
    /\ \A i \in 1..(Len(s) - 1) : ~(s[i] = "_" /\ s[i + 1] = "_")

RECURSIVE LStrip(_)
LStrip(s) == IF s # <<>> /\ Head(s) \in Whitespace THEN LStrip(Tail(s)) ELSE s

RECURSIVE RStrip(_)
RStrip(s) ==
    IF s # <<>> /\ s[Len(s)] \in Whitespace THEN RStrip(SubSeq(s, 1, Len(s) - 1))
    ELSE s

\* int(s) of a Python str: [ok |-> FALSE] stands for ValueError.  Whitespace
\* around the number is passed over, one sign is accepted, the digits may be
\* of any script and may be grouped by "_", as int() does; more digits than
\* INT_MAX_STR_DIGITS are refused.
PyInt(s) ==
    Bind(RStrip(LStrip(s)), LAMBDA t :
    Bind(t # <<>> /\ Head(t) \in {"+", "-"}, LAMBDA signed :
    Bind(IF signed THEN Tail(t) ELSE t, LAMBDA body :
        IF /\ DigitsGrouped(body)
           /\ Len(SelectSeq(body, IsDigit)) <= INT_MAX_STR_DIGITS
        THEN [ok |-> TRUE,
              v |-> IF signed /\ Head(t) = "-" THEN -DigitsVal(body, 0)
                    ELSE DigitsVal(body, 0)]
        ELSE [ok |-> FALSE, v |-> 0])))

\* index of the first occurrence of character c in s, 0 when absent
RECURSIVE IndexOf(_, _, _)
IndexOf(s, c, i) ==
    IF i > Len(s) THEN 0
    ELSE IF s[i] = c THEN i ELSE IndexOf(s, c, i + 1)

\* s.split(c): the list of the pieces between the occurrences of c
RECURSIVE Split(_, _)
Split(s, c) ==
    Bind(IndexOf(s, c, 1), LAMBDA i :
        IF i = 0 THEN <<s>>
        ELSE <<SubSeq(s, 1, i - 1)>> \o Split(SubSeq(s, i + 1, Len(s)), c))

\* s.split(c, 1): at most one split
Split1(s, c) ==
    Bind(IndexOf(s, c, 1), LAMBDA i :
        IF i = 0 THEN <<s>>
        ELSE <<SubSeq(s, 1, i - 1), SubSeq(s, i + 1, Len(s))>>)

\* c.join(parts)
RECURSIVE Join(_, _)
Join(parts, c) ==
    IF parts = <<>> THEN <<>>
    ELSE IF Len(parts) = 1 THEN parts[1]
    ELSE parts[1] \o <<c>> \o Join(Tail(parts), c)

\* ------------------------------------------------------------ dictionaries

Keys(d) == {d[i][1] : i \in 1..Len(d)}

HasKey(d, k) == \E i \in 1..Len(d) : d[i][1] = k

\* d[k] for a key the dict holds
Lookup(d, k) == d[CHOOSE i \in 1..Len(d) : d[i][1] = k][2]

\* d[k] = v: a present key keeps its place, a new key goes last
DictSet(d, k, v) ==
    IF HasKey(d, k)
    THEN [i \in 1..Len(d) |-> IF d[i][1] = k THEN <<k, v>> ELSE d[i]]
    ELSE Append(d, <<k, v>>)

\* {k: v for k, v in pairs}
RECURSIVE DictOf(_, _)
DictOf(pairs, acc) ==
    IF pairs = <<>> THEN acc
    ELSE DictOf(Tail(pairs), DictSet(acc, Head(pairs)[1], Head(pairs)[2]))

RECURSIVE SumSeq(_)
SumSeq(s) == IF s = <<>> THEN 0 ELSE Head(s) + SumSeq(Tail(s))

Range(s) == {s[i] : i \in 1..Len(s)}

\* ------------------------------------------------------------ rank-file codec

\* The cache threshold of parser.py: worlds with at least this many ranks are
\* not cached.
RANK_FILE_CACHE_THRESHOLD == 500

\* class LocalityType
LocalityType == {"hwcore", "socket", "NUMA", "node"}

\* An entry of a "peers" array of a locality table, as TOML holds it: an
\* integer or a string.
IntItem(n) == [int |-> TRUE, v |-> n, s |-> <<>>]
StrItem(s) == [int |-> FALSE, v |-> 0, s |-> s]

Ok(v) == [ok |-> TRUE, v |-> v]
Fail == [ok |-> FALSE, v |-> <<>>]

\* list(range(a, b + 1))
RECURSIVE PyRange(_, _)
PyRange(a, b) == IF a > b THEN <<>> ELSE <<a>> \o PyRange(a + 1, b)

\* What one entry of the array adds to the output list (Fail: ValueError).
DeserializePeer(peer) ==
    IF peer.int
    THEN IF peer.v < 0 THEN Fail ELSE Ok(<<peer.v>>)
    ELSE Bind(Split1(peer.s, "-"), LAMBDA parts :
             IF Len(parts) = 2
             THEN Bind(PyInt(parts[1]), LAMBDA start :
                  Bind(PyInt(parts[2]), LAMBDA end :
                      IF ~start.ok \/ ~end.ok THEN Fail
                      ELSE IF start.v > end.v \/ start.v < 0 THEN Fail
                      ELSE Ok(PyRange(start.v, end.v))))
             ELSE Bind(PyInt(parts[1]), LAMBDA n :
                      IF ~n.ok \/ n.v < 0 THEN Fail ELSE Ok(<<n.v>>)))

\* deserialize_peers: the entries flattened in order, nothing reordered and
\* nothing removed.
RECURSIVE deserialize_peers(_)
deserialize_peers(peers) ==
    IF peers = <<>> THEN Ok(<<>>)
    ELSE Bind(DeserializePeer(Head(peers)), LAMBDA first :
         Bind(deserialize_peers(Tail(peers)), LAMBDA rest :
             IF first.ok /\ rest.ok THEN Ok(first.v \o rest.v) ELSE Fail))

\* deserialize_sent_tags: {tag: occ for tag, occ in tags}
deserialize_sent_tags(tags) == DictOf(tags, <<>>)

\* from_dict(RankPeer, v): the tag lists of every size entry become dicts.
DecodeMsg(m) == [size |-> m.size, tags |-> deserialize_sent_tags(m.tags)]

DecodeCallsite(c) ==
    [callsite |-> c.callsite,
     msgs |-> [i \in 1..Len(c.msgs) |-> DecodeMsg(c.msgs[i])]]

DecodePeer(p) ==
    [sent_count |-> p.sent_count,
     sent_messages |->
        [i \in 1..Len(p.sent_messages) |->
            <<p.sent_messages[i][1],
              [j \in 1..Len(p.sent_messages[i][2]) |->
                  DecodeCallsite(p.sent_messages[i][2][j])]>>]]

\* cast_dict_keys_to_int: {int(k): from_dict(RankPeer, v) for k, v in x.items()}
RECURSIVE cast_dict_keys_to_int(_, _)
cast_dict_keys_to_int(x, acc) ==
    IF x = <<>> THEN Ok(acc)
    ELSE Bind(PyInt(Head(x)[1]), LAMBDA k :
             IF ~k.ok THEN Fail
             ELSE cast_dict_keys_to_int(Tail(x),
                      DictSet(acc, k.v, DecodePeer(Head(x)[2]))))

RECURSIVE DecodeLocalities(_)
DecodeLocalities(ls) ==
    IF ls = <<>> THEN Ok(<<>>)
    ELSE Bind(deserialize_peers(Head(ls).peers), LAMBDA p :
         Bind(DecodeLocalities(Tail(ls)), LAMBDA rest :
             IF p.ok /\ rest.ok
             THEN Ok(<<[type |-> Head(ls).locality, peers |-> p.v]>> \o rest.v)
             ELSE Fail))

\* from_toml(RankFile, text): the typed record of one rank file, or Fail when
\* a field deserializer raises.  hostname, mpi_runtime and the per-peer
\* "components" list are decoded and never read again; they are left out.
from_toml(raw) ==
    Bind(DecodeLocalities(raw.general.localities), LAMBDA ls :
    Bind(cast_dict_keys_to_int(raw.peer, <<>>), LAMBDA ps :
        IF ls.ok /\ ps.ok
        THEN Ok([general |-> [own_rank |-> raw.general.own_rank,
                              num_procs |-> raw.general.num_procs,
                              wall_time |-> raw.general.wall_time,
                              localities |-> ls.v],
                 peers |-> ps.v])
        ELSE Fail))

\* ------------------------------------------------------------------ errors

\* A raised exception: its class, its message template and the numbers the
\* message prints, in the order it prints them.
Err(kind, msg, names) == [kind |-> kind, msg |-> msg, names |-> names]

\* -------------------------------------------------------- GroupedMatrices

\* np.zeros((n, n), dtype=np.uint64)
Zeros(n) == [i \in 0..(n - 1) |-> [j \in 0..(n - 1) |-> 0]]

\* GroupedMatrices.create_empty
create_empty(n) == [msgs_sent |-> Zeros(n), total_sent |-> Zeros(n)]

\* The position numpy reads for index i on an axis of length n: a negative
\* index counts from the end, anything outside -n..n-1 is an IndexError (None).
NpIndex(i, n) ==
    IF 0 <= i /\ i < n THEN Some(i)
    ELSE IF -n <= i /\ i < 0 THEN Some(i + n)
    ELSE None

\* The cells regroup adds into cell (a, b): one term per sender listed in
\* group a and per recipient listed in group b, a rank listed twice counted
\* twice.
RegroupCell(m, senders, recipients) ==
    SumSeq([k \in 1..(Len(senders) * Len(recipients)) |->
              m[senders[((k - 1) \div Len(recipients)) + 1]]
               [recipients[((k - 1) % Len(recipients)) + 1]]])

\* GroupedMatrices.regroup: None for an unresolved locality kind, else the
\* num_localities x num_localities matrices of the block sums.
regroup(gm, localities) ==
    IF IsNone(localities) THEN None
    ELSE Bind(Get(localities), LAMBDA ls :
         Bind(Len(ls), LAMBDA nl :
             Some([msgs_sent |->
                      [a \in 0..(nl - 1) |-> [b \in 0..(nl - 1) |->
                          RegroupCell(gm.msgs_sent, ls[a + 1], ls[b + 1])]],
                   total_sent |->
                      [a \in 0..(nl - 1) |-> [b \in 0..(nl - 1) |->
                          RegroupCell(gm.total_sent, ls[a + 1], ls[b + 1])]]])))

\* ------------------------------------------------------ locality resolver

\* WorldData._parse_locality: the rank's claim of the given type (None when
\* it has none); more than one is an Exception that prints `rank`.
ClaimsOfType(localities, type) ==
    SelectSeq(localities, LAMBDA l : l.type = type)

parse_locality(rank, localities, type) ==
    Bind(ClaimsOfType(localities, type), LAMBDA cs :
        IF Len(cs) > 1
        THEN [ok |-> FALSE, found |-> None,
              err |-> Err("Exception", "found multiple times", <<rank>>)]
        ELSE [ok |-> TRUE, found |-> IF cs = <<>> THEN None ELSE Some(cs[1]),
              err |-> Err("", "", <<>>)])

\* The inner loop of _get_localities_from_rfs over found.peers[i..]: the
\* claim of every listed rank is compared with `found`, list against list.
\* Returns the covered flags, or the exception raised.
RECURSIVE CheckPeers(_, _, _, _, _, _)
CheckPeers(rank_localities, type, rank, peers, i, covered) ==
    IF i > Len(peers) THEN [ok |-> TRUE, covered |-> covered,
                            err |-> Err("", "", <<>>)]
    ELSE Bind(peers[i], LAMBDA other_rank :
             IF other_rank >= Len(rank_localities)
             THEN [ok |-> FALSE, covered |-> covered,
                   err |-> Err("IndexError", "list index out of range", <<>>)]
             ELSE Bind(parse_locality(rank, rank_localities[other_rank + 1], type),
                       LAMBDA o :
                      IF ~o.ok
                      THEN [ok |-> FALSE, covered |-> covered, err |-> o.err]
                      ELSE IF IsNone(o.found) \/ peers # Get(o.found).peers
                      THEN [ok |-> FALSE, covered |-> covered,
                            err |-> Err("Exception", "Locality differs",
                                        <<rank, other_rank>>)]
                      ELSE CheckPeers(rank_localities, type, rank, peers, i + 1,
                                      [covered EXCEPT ![other_rank + 1] = TRUE])))

\* lexicographic order of Python lists of ints
RECURSIVE ListLess(_, _)
ListLess(a, b) ==
    IF a = <<>> THEN b # <<>>
    ELSE IF b = <<>> THEN FALSE
    ELSE IF Head(a) # Head(b) THEN Head(a) < Head(b)
    ELSE ListLess(Tail(a), Tail(b))

\* insert x into the sorted list s, after the elements not greater than it
RECURSIVE InsertSorted(_, _)
InsertSorted(s, x) ==
    IF s = <<>> THEN <<x>>
    ELSE IF ListLess(x, Head(s)) THEN <<x>> \o s
    ELSE <<Head(s)>> \o InsertSorted(Tail(s), x)

\* sorted(localities)
RECURSIVE Sorted(_)
Sorted(s) ==
    IF s = <<>> THEN <<>>
    ELSE InsertSorted(Sorted(SubSeq(s, 1, Len(s) - 1)), s[Len(s)])

LocNone == [kind |-> "none", groups |-> <<>>, err |-> Err("", "", <<>>)]
LocGroups(g) == [kind |-> "groups", groups |-> g, err |-> Err("", "", <<>>)]
LocError(e) == [kind |-> "error", groups |-> <<>>, err |-> e]

\* The outer loop of _get_localities_from_rfs from rank `rank` (0-based) on.
RECURSIVE ResolveFrom(_, _, _, _, _)
ResolveFrom(rank_localities, type, rank, covered, localities) ==
    IF rank >= Len(rank_localities) THEN LocGroups(Sorted(localities))
    ELSE IF covered[rank + 1]
    THEN ResolveFrom(rank_localities, type, rank + 1, covered, localities)
    ELSE Bind(parse_locality(rank, rank_localities[rank + 1], type), LAMBDA f :
             IF ~f.ok THEN LocError(f.err)
             ELSE IF IsNone(f.found) THEN LocNone
             ELSE Bind(Get(f.found).peers, LAMBDA peers :
                  Bind(CheckPeers(rank_localities, type, rank, peers, 1, covered),
                       LAMBDA c :
                      IF ~c.ok THEN LocError(c.err)
                      ELSE ResolveFrom(rank_localities, type, rank + 1,
                                       [c.covered EXCEPT ![rank + 1] = TRUE],
                                       Append(localities, peers)))))

\* WorldData._get_localities_from_rfs
get_localities_from_rfs(rank_localities, type) ==
    ResolveFrom(rank_localities, type, 0,
                [i \in 1..Len(rank_localities) |-> FALSE], <<>>)

\* ------------------------------------------------------ aggregation, pass 2

RECURSIVE Flatten(_)
Flatten(ss) == IF ss = <<>> THEN <<>> ELSE Head(ss) \o Flatten(Tail(ss))

\* peer.sent_messages.get(component_name, [])
MessagesOf(peer, comp_n) ==
    IF HasKey(peer.sent_messages, comp_n)
    THEN Lookup(peer.sent_messages, comp_n) ELSE <<>>

\* sum(msg.tags.values())
TagSum(msg) == SumSeq([i \in 1..Len(msg.tags) |-> msg.tags[i][2]])

\* The mutation of the contributions of pass 2 that adds the occurrences of a
\* tag without the size of the messages.
Contribs_unweighted(peer, comp_n) ==
    Bind(MessagesOf(peer, comp_n), LAMBDA cs :
        Flatten([c \in 1..Len(cs) |->
            Flatten([m \in 1..Len(cs[c].msgs) |->
                [t \in 1..Len(cs[c].msgs[m].tags) |->
                    cs[c].msgs[m].tags[t][2]]])]))

\* The values msgs_sent * msg.size that the three inner loops of pass 2 add,
\* in the order of the loops: callsites, size entries, tags.
Contribs(peer, comp_n) ==
    Bind(MessagesOf(peer, comp_n), LAMBDA cs :
        Flatten([c \in 1..Len(cs) |->
            Flatten([m \in 1..Len(cs[c].msgs) |->
                [t \in 1..Len(cs[c].msgs[m].tags) |->
                    cs[c].msgs[m].tags[t][2] * cs[c].msgs[m].size]])]))

\* ComponentData.__init__
NewComponentData(n) ==
    [by_rank |-> create_empty(n),
     by_core |-> None, by_numa |-> None, by_socket |-> None, by_node |-> None,
     total_bytes_sent |-> 0, total_msgs_sent |-> 0]

NoErr == None

\* Lines 364-365 for the contributions of one peer: each adds to the running
\* total, then to the cell [sender, recipient].
RECURSIVE AddContribs(_, _, _, _, _)
AddContribs(cd, cs, sender, recipient, n) ==
    IF cs = <<>> THEN [cd |-> cd, err |-> NoErr]
    ELSE Bind([cd EXCEPT !.total_bytes_sent = @ + Head(cs)], LAMBDA cd1 :
         Bind(NpIndex(sender, n), LAMBDA i :
         Bind(NpIndex(recipient, n), LAMBDA j :
             IF IsNone(i) \/ IsNone(j)
             THEN [cd |-> cd1,
                   err |-> Some(Err("IndexError", "index out of bounds", <<>>))]
             ELSE AddContribs(
                    [cd1 EXCEPT !.by_rank.total_sent[Get(i)][Get(j)] = @ + Head(cs)],
                    Tail(cs), sender, recipient, n))))

\* The body of the loop over sender_rf.peers.items() for one peer (lines
\* 357-367).
PeerStep(cd, comp_n, sender, recipient, peer, n) ==
    IF recipient >= n
    THEN [cd |-> cd,
          err |-> Some(Err("ValueError", "Invalid peer", <<recipient, sender>>))]
    ELSE Bind(AddContribs(cd, Contribs(peer, comp_n), sender, recipient, n),
              LAMBDA a :
             IF ~IsNone(a.err) THEN a
             ELSE IF ~HasKey(peer.sent_count, comp_n)
             THEN [cd |-> a.cd, err |-> Some(Err("KeyError", comp_n, <<>>))]
             ELSE Bind(Lookup(peer.sent_count, comp_n), LAMBDA count :
                  Bind([a.cd EXCEPT !.total_msgs_sent = @ + count], LAMBDA cd1 :
                  Bind(NpIndex(sender, n), LAMBDA i :
                  Bind(NpIndex(recipient, n), LAMBDA j :
                      IF IsNone(i) \/ IsNone(j)
                      THEN [cd |-> cd1,
                            err |-> Some(Err("IndexError", "index out of bounds", <<>>))]
                      ELSE [cd |-> [cd1 EXCEPT
                                      !.by_rank.msgs_sent[Get(i)][Get(j)] = count],
                            err |-> NoErr])))))

RECURSIVE PeersLoop(_, _, _, _, _)
PeersLoop(cd, comp_n, sender, peers, n) ==
    IF peers = <<>> THEN [cd |-> cd, err |-> NoErr]
    ELSE Bind(PeerStep(cd, comp_n, sender, Head(peers)[1], Head(peers)[2], n),
              LAMBDA r :
             IF ~IsNone(r.err) THEN r
             ELSE PeersLoop(r.cd, comp_n, sender, Tail(peers), n))

\* The body of the loop of pass 2 for one rank file (lines 350-367): every
\* component, in the iteration order of meta.components.
RECURSIVE Pass2Rank(_, _, _, _)
Pass2Rank(comps, order, sender_rf, n) ==
    IF order = <<>> THEN [components |-> comps, err |-> NoErr]
    ELSE Bind(Head(order), LAMBDA comp_n :
         Bind(sender_rf.general.own_rank, LAMBDA sender :
             IF sender >= n
             THEN [components |-> comps,
                   err |-> Some(Err("ValueError", "Invalid own_rank", <<sender>>))]
             ELSE Bind(PeersLoop(comps[comp_n], comp_n, sender, sender_rf.peers, n),
                       LAMBDA r :
                  Bind([comps EXCEPT ![comp_n] = r.cd], LAMBDA comps1 :
                      IF ~IsNone(r.err)
                      THEN [components |-> comps1, err |-> r.err]
                      ELSE Pass2Rank(comps1, Tail(order), sender_rf, n)))))

\* ------------------------------------------------------ SizeData / TagData

\* set -> ascending list (np.array(list(s)) followed by sort())
MinOf(S) == CHOOSE x \in S : \A y \in S : x <= y

RECURSIVE SortedSet(_)
SortedSet(S) ==
    IF S = {} THEN <<>> ELSE <<MinOf(S)>> \o SortedSet(S \ {MinOf(S)})

\* {v: i for i, v in enumerate(values)}[x], 0-based
IdxOf(values, x) == (CHOOSE i \in 1..Len(values) : values[i] = x) - 1

\* Every size entry of the component a peer record holds, callsite by callsite.
MsgsOf(peer, comp_n) ==
    Bind(MessagesOf(peer, comp_n), LAMBDA cs :
        Flatten([c \in 1..Len(cs) |-> cs[c].msgs]))

\* The exception from_rf raises before it fills the table, if any.  A
\* negative key cannot be stored in the uint64 array of peers (OverflowError,
\* line 166; a numpy that wraps it instead ends in a KeyError at line 181);
\* a key >= num_procs is the ValueError of line 168.
FromRfError(sender_rf) ==
    IF \E k \in Keys(sender_rf.peers) : k < 0
    THEN Some(Err("OverflowError", "out of bounds for uint64", <<>>))
    ELSE Bind(SelectSeq(sender_rf.peers,
                        LAMBDA kv : kv[1] >= sender_rf.general.num_procs),
              LAMBDA bad :
             IF bad # <<>>
             THEN Some(Err("ValueError", "Invalid peer",
                           <<bad[1][1], sender_rf.general.own_rank>>))
             ELSE NoErr)

\* The mutation of the accumulation of from_rf that stores the occurrences
\* of a size entry in place of adding them.
RECURSIVE SizeRow_overwrite(_, _, _)
SizeRow_overwrite(row, msgs, occuring_sizes) ==
    IF msgs = <<>> THEN row
    ELSE SizeRow_overwrite(
             [row EXCEPT ![IdxOf(occuring_sizes, Head(msgs).size) + 1] =
                  TagSum(Head(msgs))],
             Tail(msgs), occuring_sizes)

\* data[recipient_idx, size_idx] += sum(msg.tags.values()) over the size
\* entries msgs of one peer
RECURSIVE SizeRow(_, _, _)
SizeRow(row, msgs, occuring_sizes) ==
    IF msgs = <<>> THEN row
    ELSE SizeRow([row EXCEPT ![IdxOf(occuring_sizes, Head(msgs).size) + 1] =
                      @ + TagSum(Head(msgs))],
                 Tail(msgs), occuring_sizes)

\* SizeData.from_rf
SizeData_from_rf(sender_rf, component_name) ==
    Bind(FromRfError(sender_rf), LAMBDA e :
    Bind([i \in 1..Len(sender_rf.peers) |-> sender_rf.peers[i][1]], LAMBDA peers :
    Bind(SortedSet(UNION {{m.size : m \in Range(MsgsOf(sender_rf.peers[i][2],
                                                      component_name))}
                          : i \in 1..Len(sender_rf.peers)}),
         LAMBDA occuring_sizes :
    Bind([i \in 1..Len(occuring_sizes) |-> 0], LAMBDA zero :
        IF ~IsNone(e) THEN [ok |-> FALSE, err |-> e, v |-> <<>>]
        ELSE [ok |-> TRUE, err |-> NoErr,
              v |-> [rank |-> sender_rf.general.own_rank,
                     occuring |-> occuring_sizes,
                     peers |-> peers,
                     data |-> [p \in 1..Len(peers) |->
                                 SizeRow(zero,
                                         MsgsOf(sender_rf.peers[p][2], component_name),
                                         occuring_sizes)]]]))))

\* The mutation of the accumulation of a tag row that stores the occurrences
\* read last in place of adding them.
RECURSIVE TagRow_overwrite(_, _, _)
TagRow_overwrite(row, tagpairs, occuring_tags) ==
    IF tagpairs = <<>> THEN row
    ELSE TagRow_overwrite([row EXCEPT ![IdxOf(occuring_tags, Head(tagpairs)[1]) + 1] =
                               Head(tagpairs)[2]],
                          Tail(tagpairs), occuring_tags)

\* data[recipient_idx, tag_idx] += occurances over the tags of the size
\* entries msgs of one peer
RECURSIVE TagRow(_, _, _)
TagRow(row, tagpairs, occuring_tags) ==
    IF tagpairs = <<>> THEN row
    ELSE TagRow([row EXCEPT ![IdxOf(occuring_tags, Head(tagpairs)[1]) + 1] =
                     @ + Head(tagpairs)[2]],
                Tail(tagpairs), occuring_tags)

TagPairsOf(peer, comp_n) ==
    Bind(MsgsOf(peer, comp_n), LAMBDA ms :
        Flatten([m \in 1..Len(ms) |-> ms[m].tags]))

\* TagData.from_rf
TagData_from_rf(sender_rf, component_name) ==
    Bind(FromRfError(sender_rf), LAMBDA e :
    Bind([i \in 1..Len(sender_rf.peers) |-> sender_rf.peers[i][1]], LAMBDA peers :
    Bind(SortedSet(UNION {{tp[1] : tp \in Range(TagPairsOf(sender_rf.peers[i][2],
                                                          component_name))}
                          : i \in 1..Len(sender_rf.peers)}),
         LAMBDA occuring_tags :
    Bind([i \in 1..Len(occuring_tags) |-> 0], LAMBDA zero :
        IF ~IsNone(e) THEN [ok |-> FALSE, err |-> e, v |-> <<>>]
        ELSE [ok |-> TRUE, err |-> NoErr,
              v |-> [rank |-> sender_rf.general.own_rank,
                     occuring |-> occuring_tags,
                     peers |-> peers,
                     data |-> [p \in 1..Len(peers) |->
                                 TagRow(zero,
                                        TagPairsOf(sender_rf.peers[p][2], component_name),
                                        occuring_tags)]]]))))

\* ------------------------------------------------------------ filter engine

\* The dtypes of the arrays the filters are applied to: np.array of a list
\* of Python ints is int64, of an empty list float64; np.zeros(..., np.uint64)
\* is uint64.
IntegerTypes == {"int64", "uint64"}

\* np.iinfo(dtype).min <= x for an integer dtype: the minimum is 0 for uint64
\* and -2^63 for int64, which is below every integer of the model.
AboveMin(dtype, x) == dtype = "int64" \/ 0 <= x

\* x <= np.iinfo(dtype).max for an integer dtype: 2^63 - 1 and 2^64 - 1 are
\* above every integer of the model.
BelowMax(dtype, x) == dtype \in IntegerTypes

Array(dtype, v) == [dtype |-> dtype, v |-> v]

\* The filter objects, one record shape per class.
Unfiltered == [type |-> "Unfiltered"]

BadFilter == [type |-> "BadFilter"]

RangeFilter(min, max, segment) ==
    [type |-> "RangeFilter", min |-> min, max |-> max, segment |-> segment]

ExactFilter(n, segment) == [type |-> "ExactFilter", n |-> n, segment |-> segment]

InvertedFilter(inner) == [type |-> "InvertedFilter", inner |-> inner]

\* A MultiRangeFilter of mpiperfcli.filters with its three attributes set.
MultiRangeFilterOf(ranges, exact, text) ==
    [type |-> "MultiRangeFilter", ranges |-> ranges, exact |-> exact, text |-> text]

\* A DiscreteMultiRangeFilter of filtering.filters with its two attributes set.
DiscreteMultiRangeFilterOf(ranges, exact) ==
    [type |-> "DiscreteMultiRangeFilter", ranges |-> ranges, exact |-> exact]

MultiTypes == {"MultiRangeFilter", "DiscreteMultiRangeFilter"}

\* Unfiltered.apply (BadFilter inherits it): np.ones_like(data, dtype=bool)
Unfiltered_apply(data) == [i \in 1..Len(data.v) |-> TRUE]

\* The mutation of RangeFilter.apply that takes 0 for an unset minimum.
RangeFilter_apply_zero_min(f, data) ==
    [i \in 1..Len(data.v) |->
        /\ IF IsNone(f.min) THEN 0 <= data.v[i] ELSE Get(f.min) <= data.v[i]
        /\ IF IsNone(f.max) THEN BelowMax(data.dtype, data.v[i])
           ELSE data.v[i] <= Get(f.max)]

\* RangeFilter.apply, where np.iinfo does not raise: an unset bound is the
\* minimum (maximum) of the dtype of the array.
RangeFilter_apply(f, data) ==
    [i \in 1..Len(data.v) |->
        /\ IF IsNone(f.min) THEN AboveMin(data.dtype, data.v[i])
           ELSE Get(f.min) <= data.v[i]
        /\ IF IsNone(f.max) THEN BelowMax(data.dtype, data.v[i])
           ELSE data.v[i] <= Get(f.max)]

\* ExactFilter.apply
ExactFilter_apply(f, data) == [i \in 1..Len(data.v) |-> data.v[i] = f.n]

\* filter |= m
MaskOr(filter, m) == [i \in 1..Len(filter) |-> filter[i] \/ m[i]]

\* The loop "for x in fs: filter |= x.apply(data)" of MultiRangeFilter.apply,
\* over ranges (ExactFilter: FALSE) or over exact values (ExactFilter: TRUE).
RECURSIVE MaskOrAll(_, _, _, _)
MaskOrAll(filter, fs, data, isExact) ==
    IF fs = <<>> THEN filter
    ELSE MaskOrAll(MaskOr(filter, IF isExact THEN ExactFilter_apply(Head(fs), data)
                                  ELSE RangeFilter_apply(Head(fs), data)),
                   Tail(fs), data, isExact)

\* MultiRangeFilter.apply and DiscreteMultiRangeFilter.apply
MultiRangeFilter_apply(f, data) ==
    MaskOrAll(MaskOrAll([i \in 1..Len(data.v) |-> FALSE], f.ranges, data, FALSE),
              f.exact, data, TRUE)

RECURSIVE Apply(_, _)

\* The mutation of InvertedFilter.apply that returns the inner mask as it is.
InvertedFilter_apply_inner(f, data) == Apply(f.inner, data)

\* InvertedFilter.apply: ~self._inner.apply(data)
InvertedFilter_apply(f, data) ==
    Bind(Apply(f.inner, data), LAMBDA m : [i \in 1..Len(m) |-> ~m[i]])

\* f.apply(data), dispatched on the class of f
Apply(f, data) ==
    CASE f.type \in {"Unfiltered", "BadFilter"} -> Unfiltered_apply(data)
      [] f.type = "RangeFilter" -> RangeFilter_apply(f, data)
      [] f.type = "ExactFilter" -> ExactFilter_apply(f, data)
      [] f.type \in MultiTypes -> MultiRangeFilter_apply(f, data)
      [] f.type = "InvertedFilter" -> InvertedFilter_apply(f, data)

\* f.apply(data) raises ValueError: np.iinfo of a dtype that is no integer
\* type, asked by a range with an unset bound.
RECURSIVE ApplyRaises(_, _)
ApplyRaises(f, data) ==
    CASE f.type = "RangeFilter" ->
            (IsNone(f.min) \/ IsNone(f.max)) /\ data.dtype \notin IntegerTypes
      [] f.type \in MultiTypes ->
            \E i \in 1..Len(f.ranges) : ApplyRaises(f.ranges[i], data)
      [] f.type = "InvertedFilter" -> ApplyRaises(f.inner, data)
      [] OTHER -> FALSE

INF == <<"i", "n", "f">>

MINUS_INF == <<"-">> \o INF

PLUS_INF == <<"+">> \o INF

\* str(None)
NONE_STR == <<"N", "o", "n", "e">>

\* RangeFilter.__str__ of mpiperfcli.filters
RangeFilter_str(f) ==
    <<"[">> \o (IF IsNone(f.min) THEN MINUS_INF ELSE IntToStr(Get(f.min)))
    \o <<";">> \o (IF IsNone(f.max) THEN PLUS_INF ELSE IntToStr(Get(f.max)))
    \o <<"]">>

\* RangeFilter.__str__ of filtering.filters: f"[{self.min};{self.max}]"
RangeFilter_str_filtering(f) ==
    <<"[">> \o (IF IsNone(f.min) THEN NONE_STR ELSE IntToStr(Get(f.min)))
    \o <<";">> \o (IF IsNone(f.max) THEN NONE_STR ELSE IntToStr(Get(f.max)))
    \o <<"]">>

\* ExactFilter.__str__
ExactFilter_str(f) == IntToStr(f.n)

\* object.__str__ of a class that defines none: "<... object at 0x...>", one
\* character here that no parser accepts.
object_str(f) == <<"<object>">>

\* str(f) under the filters module lib ("mpiperfcli" or "filtering")
RECURSIVE Str(_, _)
Str(lib, f) ==
    CASE f.type = "RangeFilter" ->
            IF lib = "mpiperfcli" THEN RangeFilter_str(f)
            ELSE RangeFilter_str_filtering(f)
      [] f.type = "ExactFilter" -> ExactFilter_str(f)
      [] f.type \in MultiTypes ->
            Join([i \in 1..(Len(f.ranges) + Len(f.exact)) |->
                     IF i <= Len(f.ranges) THEN Str(lib, f.ranges[i])
                     ELSE Str(lib, f.exact[i - Len(f.ranges)])], ",")
      [] f.type = "InvertedFilter" ->
            IF lib = "mpiperfcli" THEN <<"!">> \o Str(lib, f.inner)
            ELSE object_str(f)
      [] OTHER -> object_str(f)

\* (?:\+|\-)?(?:inf|\d+)
IsBoundToken(t) ==
    Bind(IF t # <<>> /\ Head(t) \in {"+", "-"} THEN Tail(t) ELSE t,
         LAMBDA b : b = INF \/ AllDigits(b))

\* re.match of the range pattern of RangeFilter.from_str: the two groups, or
\* None.  "$" also matches before a newline that ends the text, so one such
\* newline is passed over.  Neither group can hold ";", so the first ";"
\* parts them.
RangeMatch(s) ==
    Bind(IF s # <<>> /\ s[Len(s)] = "\n" THEN SubSeq(s, 1, Len(s) - 1) ELSE s,
         LAMBDA m :
        IF Len(m) >= 2 /\ m[1] = "[" /\ m[Len(m)] = "]"
        THEN Bind(Split1(SubSeq(m, 2, Len(m) - 1), ";"), LAMBDA g :
                 IF Len(g) = 2 /\ IsBoundToken(g[1]) /\ IsBoundToken(g[2])
                 THEN Some(g) ELSE None)
        ELSE None)

\* The result of a call that may raise ValueError.
Returned(f) == [ok |-> TRUE, f |-> f]

Raised == [ok |-> FALSE, f |-> None]

\* The mutation of the bounds of a range that takes an infinity of either
\* sign for an unset bound.
BoundOf_any_infinity(s, unbounded) ==
    IF s \in {INF, PLUS_INF, MINUS_INF} THEN Ok(None)
    ELSE Bind(PyInt(s), LAMBDA n : IF n.ok THEN Ok(Some(n.v)) ELSE Fail)

\* int(s) if s != skip ... else None, for the bounds of a range: Fail when
\* int() raises.
BoundOf(s, unbounded) ==
    IF s \in unbounded THEN Ok(None)
    ELSE Bind(PyInt(s), LAMBDA n : IF n.ok THEN Ok(Some(n.v)) ELSE Fail)

\* RangeFilter.from_str of mpiperfcli.filters: Returned(None) when the text
\* is no range, Raised when a bound is an infinity of the wrong sign.
RangeFilter_from_str(s, segment) ==
    Bind(RangeMatch(s), LAMBDA range_match :
        IF IsNone(range_match) THEN Returned(None)
        ELSE Bind(BoundOf(Get(range_match)[1], {MINUS_INF}), LAMBDA min :
             Bind(BoundOf(Get(range_match)[2], {INF, PLUS_INF}), LAMBDA max :
                 IF ~min.ok \/ ~max.ok THEN Raised
                 ELSE Returned(Some(RangeFilter(min.v, max.v, segment))))))

\* ExactFilter.from_str
ExactFilter_from_str(s, segment) ==
    Bind(PyInt(s), LAMBDA n :
        IF n.ok THEN Returned(ExactFilter(n.v, segment)) ELSE Raised)

\* The mutation of the loop of MultiRangeFilter.__init__ that, when tolerant,
\* ends at the first malformed segment in place of going on to the next.
RECURSIVE MultiRangeLoop_break(_, _, _, _, _, _)
MultiRangeLoop_break(text, els, i, ranges, exact, tolerant) ==
    IF i > Len(els) THEN Returned(MultiRangeFilterOf(ranges, exact, text))
    ELSE Bind(RangeFilter_from_str(els[i], None), LAMBDA range_filter :
        IF ~range_filter.ok
        THEN IF tolerant
             THEN Returned(MultiRangeFilterOf(ranges, exact, text))
             ELSE Raised
        ELSE IF ~IsNone(range_filter.f)
        THEN MultiRangeLoop_break(text, els, i + 1,
                                  Append(ranges, Get(range_filter.f)), exact, tolerant)
        ELSE Bind(ExactFilter_from_str(els[i], Some(i - 1)), LAMBDA e :
            IF ~e.ok
            THEN IF tolerant
                 THEN Returned(MultiRangeFilterOf(ranges, exact, text))
                 ELSE Raised
            ELSE MultiRangeLoop_break(text, els, i + 1, ranges, Append(exact, e.f),
                                      tolerant)))

\* The loop of MultiRangeFilter.__init__ from element i (1-based) on.
RECURSIVE MultiRangeLoop(_, _, _, _, _, _)
MultiRangeLoop(text, els, i, ranges, exact, tolerant) ==
    IF i > Len(els) THEN Returned(MultiRangeFilterOf(ranges, exact, text))
    ELSE Bind(RangeFilter_from_str(els[i], None), LAMBDA range_filter :
        IF ~range_filter.ok
        THEN IF tolerant
             THEN MultiRangeLoop(text, els, i + 1, ranges, exact, tolerant)
             ELSE Raised
        ELSE IF ~IsNone(range_filter.f)
        THEN MultiRangeLoop(text, els, i + 1,
                            Append(ranges, Get(range_filter.f)), exact, tolerant)
        ELSE Bind(ExactFilter_from_str(els[i], Some(i - 1)), LAMBDA e :
            IF ~e.ok
            THEN IF tolerant
                 THEN MultiRangeLoop(text, els, i + 1, ranges, exact, tolerant)
                 ELSE Raised
            ELSE MultiRangeLoop(text, els, i + 1, ranges, Append(exact, e.f),
                                tolerant)))

\* MultiRangeFilter(text, tolerant) of mpiperfcli.filters
MultiRangeFilter(text, tolerant) ==
    IF Len(text) = 0 THEN Returned(MultiRangeFilterOf(<<>>, <<>>, text))
    ELSE MultiRangeLoop(text, Split(text, ","), 1, <<>>, <<>>, tolerant)

\* One pass of the try block of DiscreteMultiRangeFilter.__init__ for the
\* element el at index i (0-based): the filter it appends, or Raised.
DiscreteElement(el, i) ==
    IF el # <<>> /\ Head(el) = "["
    THEN IF el[Len(el)] # "]" THEN Raised
         ELSE Bind(Split(SubSeq(el, 2, Len(el) - 1), ";"), LAMBDA parts :
             IF Len(parts) # 2 THEN Raised
             ELSE IF parts[1] \in {INF, PLUS_INF} THEN Raised
             ELSE IF parts[2] = MINUS_INF THEN Raised
             ELSE Bind(BoundOf(parts[1], {MINUS_INF}), LAMBDA min :
                  Bind(BoundOf(parts[2], {INF, PLUS_INF}), LAMBDA max :
                      IF ~min.ok \/ ~max.ok THEN Raised
                      ELSE Returned(RangeFilter(min.v, max.v, Some(i))))))
    ELSE Bind(PyInt(el), LAMBDA exact :
             IF exact.ok THEN Returned(ExactFilter(exact.v, Some(i))) ELSE Raised)

\* The loop of DiscreteMultiRangeFilter.__init__ from element i (1-based) on.
RECURSIVE DiscreteLoop(_, _, _, _, _)
DiscreteLoop(els, i, ranges, exact, tolerant) ==
    IF i > Len(els) THEN Returned(DiscreteMultiRangeFilterOf(ranges, exact))
    ELSE Bind(DiscreteElement(els[i], i - 1), LAMBDA e :
        IF ~e.ok
        THEN IF tolerant THEN DiscreteLoop(els, i + 1, ranges, exact, tolerant)
             ELSE Raised
        ELSE IF e.f.type = "RangeFilter"
        THEN DiscreteLoop(els, i + 1, Append(ranges, e.f), exact, tolerant)
        ELSE DiscreteLoop(els, i + 1, ranges, Append(exact, e.f), tolerant))

\* DiscreteMultiRangeFilter(text, tolerant) of filtering.filters
DiscreteMultiRangeFilter(text, tolerant) ==
    IF Len(text) = 0 THEN Returned(DiscreteMultiRangeFilterOf(<<>>, <<>>))
    ELSE DiscreteLoop(Split(text, ","), 1, <<>>, <<>>, tolerant)

\* parse_filter of the command line
parse_filter(s) ==
    Bind(s # <<>> /\ Head(s) = "!", LAMBDA negated :
    Bind(MultiRangeFilter(IF negated THEN Tail(s) ELSE s, FALSE), LAMBDA filter :
        IF ~filter.ok THEN Raised
        ELSE IF negated THEN Returned(InvertedFilter(filter.f))
        ELSE filter))

\* The classes each filters module defines.
FilterNames(l) ==
    IF l = "mpiperfcli"
    THEN {"FilterType", "Filter", "Unfiltered", "BadFilter", "SerializedFilter",
          "RangeFilter", "ExactFilter", "MultiRangeFilter", "InvertedFilter",
          "FilterState"}
    ELSE {"FilterType", "Filter", "Unfiltered", "BadFilter", "SerializedFilter",
          "RangeFilter", "ExactFilter", "DiscreteMultiRangeFilter", "InvertedFilter",
          "FilterState"}

\* The names filter_widgets imports from the filters module beside it, in the
\* order of the import statement; the same in both copies of filter_widgets.
WidgetImports ==
    <<"BadFilter", "DiscreteMultiRangeFilter", "Filter", "FilterState",
      "FilterType", "InvertedFilter", "RangeFilter", "Unfiltered">>

\* The imported names the module l does not define, in import order.
MissingImports(l) == SelectSeq(WidgetImports, LAMBDA n : n \notin FilterNames(l))

\* filter_widgets can be imported beside the module l, so that its widgets
\* exist: with filtering.filters, and not with mpiperfcli.filters, which has no
\* DiscreteMultiRangeFilter.
ImportsResolve(l) == MissingImports(l) = <<>>

\* DiscreteMultiRangeFilterWidget.state of filtering.filter_widgets, beside the
\* DiscreteMultiRangeFilter of filtering.filters: a text that does not parse is
\* printed with its error and answered with a BadFilter.
DiscreteMultiRangeFilterWidget_state(line_edit) ==
    Bind(DiscreteMultiRangeFilter(line_edit, FALSE), LAMBDA r :
        IF r.ok THEN r.f ELSE BadFilter)

\* The mutation of TagFilterObject.state that inverts whatever the exclude
\* widget returns.
TagFilterObject_state_inverting(checked, mode, include_text, exclude_text) ==
    IF ~checked THEN Unfiltered
    ELSE IF mode = "INCLUDE" THEN DiscreteMultiRangeFilterWidget_state(include_text)
    ELSE InvertedFilter(DiscreteMultiRangeFilterWidget_state(exclude_text))

\* TagFilterObject.state
TagFilterObject_state(checked, mode, include_text, exclude_text) ==
    IF ~checked THEN Unfiltered
    ELSE IF mode = "INCLUDE" THEN DiscreteMultiRangeFilterWidget_state(include_text)
    ELSE Bind(DiscreteMultiRangeFilterWidget_state(exclude_text),
              LAMBDA exclude_filter :
                 IF exclude_filter.type = "BadFilter" THEN exclude_filter
                 ELSE InvertedFilter(exclude_filter))

\* ------------------------------------------------------------ input files

Msg(size, tags) == [size |-> size, tags |-> tags]
Callsite(id, msgs) == [callsite |-> id, msgs |-> msgs]
RawPeer(count, messages) == [sent_count |-> count, sent_messages |-> messages]

\* The peer record of the scenario: 3 messages of size 64 with tag 7 and 2 of
\* size 128 with tag 9, declared count 5.
PeerScenario ==
    RawPeer(<<<<"mtl", 5>>, <<"pml", 0>>>>,
            <<<<"mtl", <<Callsite(1, <<Msg(64, <<<<7, 3>>>>),
                                       Msg(128, <<<<9, 2>>>>)>>)>>>>>>)

\* One size and one tag at two callsites, a declared count that differs from
\* the logged messages, traffic in both components.
PeerTwoCallsites ==
    RawPeer(<<<<"mtl", 1>>, <<"pml", 1>>>>,
            <<<<"mtl", <<Callsite(1, <<Msg(64, <<<<7, 1>>>>)>>),
                         Callsite(2, <<Msg(64, <<<<7, 2>>, <<9, 1>>>>)>>)>>>>,
              <<"pml", <<Callsite(1, <<Msg(8, <<<<7, 1>>>>)>>)>>>>>>)

\* The tags of the scenario in other numbers: 1 message with tag 7 and 3 with
\* tag 9, all of size 64.
PeerSwapped ==
    RawPeer(<<<<"mtl", 4>>, <<"pml", 0>>>>,
            <<<<"mtl", <<Callsite(1, <<Msg(64, <<<<7, 1>>, <<9, 3>>>>)>>)>>>>>>)

\* No traffic of "mtl", traffic of "pml".
PeerOtherComponent ==
    RawPeer(<<<<"mtl", 0>>, <<"pml", 2>>>>,
            <<<<"pml", <<Callsite(1, <<Msg(8, <<<<9, 2>>>>)>>)>>>>>>)

\* Declared counts and no logged message.
PeerCountOnly == RawPeer(<<<<"mtl", 2>>, <<"pml", 0>>>>, <<>>)

\* "pml" occurs in sent_messages only.
PeerMessagesOnly ==
    RawPeer(<<<<"mtl", 1>>>>,
            <<<<"pml", <<Callsite(1, <<Msg(8, <<<<7, 1>>>>)>>)>>>>>>)

\* One tag twice in the tag list of one size entry.
PeerRepeatedTag ==
    RawPeer(<<<<"mtl", 3>>, <<"pml", 0>>>>,
            <<<<"mtl", <<Callsite(1, <<Msg(64, <<<<7, 1>>, <<7, 2>>>>)>>)>>>>>>)

\* "mtl" alone, one size at two callsites and under two tags.
PeerRepeatedSize ==
    RawPeer(<<<<"mtl", 6>>>>,
            <<<<"mtl", <<Callsite(1, <<Msg(64, <<<<7, 3>>>>), Msg(128, <<<<9, 2>>>>)>>),
                         Callsite(2, <<Msg(64, <<<<9, 1>>>>)>>)>>>>>>)

\* A run that profiles "mtl" alone.
PeerSingleComponent ==
    RawPeer(<<<<"mtl", 2>>>>,
            <<<<"mtl", <<Callsite(1, <<Msg(64, <<<<7, 2>>>>)>>)>>>>>>)

PeerPool ==
    {PeerScenario, PeerTwoCallsites, PeerOtherComponent, PeerCountOnly,
     PeerMessagesOnly, PeerRepeatedTag, PeerSingleComponent}

\* The "peer" tables rank 0's file may hold in a directory of K files: keys
\* inside and outside 0..K-1, one or two peers, in either order, and the key
\* of rank K-1 written with a group separator ("0_0", "0_1").
PeerTablesRich(K) ==
    {<<>>}
    \cup {<<<<IntToStr(K - 1), rec>>>> : rec \in PeerPool}
    \cup {<<<<IntToStr(0), rec>>>> : rec \in {PeerScenario, PeerOtherComponent}}
    \cup {<<<<IntToStr(-1), PeerScenario>>>>, <<<<IntToStr(K), PeerScenario>>>>}
    \cup {<<<<<<"0", "_">> \o IntToStr(K - 1), PeerScenario>>>>}
    \cup {<<<<IntToStr(K - 1), PeerCountOnly>>, <<IntToStr(-1), PeerScenario>>>>,
          <<<<IntToStr(-1), PeerScenario>>, <<IntToStr(K - 1), PeerCountOnly>>>>}
    \cup (IF K > 1
          THEN {<<<<IntToStr(0), PeerScenario>>, <<IntToStr(K - 1), PeerOtherComponent>>>>,
                <<<<IntToStr(K - 1), PeerTwoCallsites>>, <<IntToStr(0), PeerScenario>>>>}
          ELSE {})

\* The "peer" tables of the other ranks' files.
PeerTablesSmall(r) ==
    {<<>>, <<<<IntToStr(0), PeerTwoCallsites>>>>, <<<<IntToStr(r), PeerCountOnly>>>>}

RawLocality(type, peers) == [locality |-> type, peers |-> peers]

IntItems(ns) == [i \in 1..Len(ns) |-> IntItem(ns[i])]

\* The locality tables of rank r's file under each layout of a run of K ranks.
Layouts ==
    {"none", "node_all", "node_single_numa_all", "node_last", "node_repeat",
     "node_mismatch", "node_range", "node_partial"}

LocalitiesOf(layout, r, K) ==
    CASE layout = "none" -> <<>>
      [] layout = "node_all" -> <<RawLocality("node", IntItems(PyRange(0, K - 1)))>>
      [] layout = "node_single_numa_all" ->
            <<RawLocality("node", IntItems(<<r>>)),
              RawLocality("NUMA", IntItems(PyRange(0, K - 1)))>>
      [] layout = "node_last" -> <<RawLocality("node", IntItems(<<K - 1>>))>>
      [] layout = "node_repeat" ->
            <<RawLocality("node", IntItems(<<0>> \o PyRange(0, K - 1)))>>
      [] layout = "node_mismatch" ->
            <<RawLocality("node", IntItems(IF r = 0 THEN PyRange(0, K - 1) ELSE <<r>>))>>
      [] layout = "node_range" ->
            <<RawLocality("node", <<StrItem(IntToStr(0) \o <<"-">> \o IntToStr(K - 1))>>)>>
      [] layout = "node_partial" ->
            IF r = 0 THEN <<>> ELSE <<RawLocality("node", IntItems(<<r>>))>>

RawFile(own_rank, num_procs, localities, peer) ==
    [general |-> [own_rank |-> own_rank, num_procs |-> num_procs,
                  wall_time |-> 1000 * (own_rank + 1), localities |-> localities],
     peer |-> peer]

\* The directories the model loads: K files pc_data_0 .. pc_data_(K-1) of a
\* run that declares n processes.
Directory(K, n, layout, own, t0, ts) ==
    [r \in 0..(K - 1) |->
        RawFile(IF r = K - 1 THEN own ELSE r, n, LocalitiesOf(layout, r, K),
                IF r = 0 THEN t0 ELSE ts[r])]

\* The "peer" tables of the files after the first: the last file holds one
\* of the small tables and the files between hold none.
SmallTables(K) ==
    {[r \in 1..(K - 1) |-> IF r = K - 1 THEN t ELSE <<>>] :
        t \in PeerTablesSmall(K - 1)}

NoTables(K) == [r \in 1..(K - 1) |-> <<>>]

\* Every peer table with the layouts that resolve.
TrafficDirectories(K) ==
    {Directory(K, K, layout, K - 1, t0, ts) :
        layout \in {"node_single_numa_all", "node_last"},
        t0 \in PeerTablesRich(K), ts \in SmallTables(K)}

\* Every layout with little traffic.
LayoutDirectories(K) ==
    {Directory(K, K, layout, K - 1, t0, NoTables(K)) :
        layout \in Layouts,
        t0 \in {<<>>, <<<<IntToStr(K - 1), PeerScenario>>>>}}

\* Runs at the cache threshold, and files whose own_rank is not their place.
OddDirectories(K) ==
    {Directory(K, n, "none", own, t0, NoTables(K)) :
        n \in {K, RANK_FILE_CACHE_THRESHOLD}, own \in {K - 1, K},
        t0 \in {<<>>, <<<<IntToStr(K - 1), PeerScenario>>>>}}

Directories ==
    UNION {TrafficDirectories(K) \cup LayoutDirectories(K) \cup OddDirectories(K)
           : K \in 1..MaxProcs}

\* A run of as many ranks as the cache threshold, which parse_metadata loads
\* without the cache of rank files: the first rank sent to the second and the
\* last rank to the first, within "mtl".
ThresholdDirectory ==
    Directory(RANK_FILE_CACHE_THRESHOLD, RANK_FILE_CACHE_THRESHOLD, "none",
              RANK_FILE_CACHE_THRESHOLD - 1,
              <<<<IntToStr(1), PeerRepeatedSize>>>>,
              [r \in 1..(RANK_FILE_CACHE_THRESHOLD - 1) |->
                  IF r = RANK_FILE_CACHE_THRESHOLD - 1
                  THEN <<<<IntToStr(0), PeerSingleComponent>>>> ELSE <<>>])

\* The directories whose tables are asked for with and without the cache of
\* rank files.
TableDirectories ==
    UNION {LayoutDirectories(K) : K \in 1..MaxProcs} \cup {ThresholdDirectory}

\* ------------------------------------------------- inputs of the resolver

\* Number of rank files whose locality tables the resolver is given.
MaxRanks == 3

\* The peer lists a claim may hold in a run of K ranks: one rank, two ranks
\* in ascending order, two ranks in descending order, one rank twice, a rank
\* that does not exist.
PeerLists(K) ==
    {<<a>> : a \in 0..(K - 1)}
    \cup {p \in (0..(K - 1)) \X (0..(K - 1)) : p[1] < p[2]}
    \cup {<<K - 1, 0>>, <<0, 0>>, <<K>>}

\* The locality tables one rank file may hold: none, one "node" claim, the
\* range "0-(K-1)", two claims of one kind, claims of two kinds, a negative
\* peer, rank 0 written as "0_0".
ClaimOptions(K) ==
    {<<>>}
    \cup {<<RawLocality("node", IntItems(p))>> : p \in PeerLists(K)}
    \cup {<<RawLocality("node",
                        <<StrItem(IntToStr(0) \o <<"-">> \o IntToStr(K - 1))>>)>>,
          <<RawLocality("node", IntItems(<<0>>)), RawLocality("node", IntItems(<<0>>))>>,
          <<RawLocality("NUMA", IntItems(<<0>>)),
            RawLocality("node", IntItems(PyRange(0, K - 1)))>>,
          <<RawLocality("node", <<IntItem(-1)>>)>>,
          <<RawLocality("node", <<StrItem(<<"0", "_", "0">>)>>)>>}

\* general.localities of the files of ranks 0..K-1, for K up to MaxRanks
LocalityInputs == UNION {[1..K -> ClaimOptions(K)] : K \in 1..MaxRanks}

\* ------------------------------------------------- inputs of the filters

\* A filter holds at most MaxParts ranges and exact values together.
MaxParts == 2

Libs == {"mpiperfcli", "filtering"}

Bounds == {None, Some(-3), Some(2)}

RangePool == {RangeFilter(a, b, None) : a \in Bounds, b \in Bounds}

ExactPool == {ExactFilter(n, None) : n \in {-3, 0, 5}}

\* The pairs <<ranges, exact>> of at most MaxParts filters together.
PartsPool ==
    UNION {[1..q[1] -> RangePool] \X [1..q[2] -> ExactPool] :
              q \in {c \in (0..MaxParts) \X (0..MaxParts) : c[1] + c[2] <= MaxParts}}

\* The multi-range filters of the module lib with these parts.
MultiPool(lib) ==
    {IF lib = "mpiperfcli" THEN MultiRangeFilterOf(p[1], p[2], <<>>)
     ELSE DiscreteMultiRangeFilterOf(p[1], p[2]) : p \in PartsPool}

\* The filters built purely from ranges and exact values.
PureFilters(lib) ==
    RangePool \cup ExactPool \cup MultiPool(lib)
    \cup {InvertedFilter(f) : f \in MultiPool(lib)}

\* The filters a caller constructs.
FilterPool(lib) ==
    PureFilters(lib) \cup {Unfiltered, BadFilter}
    \cup {InvertedFilter(f) : f \in RangePool \cup ExactPool \cup {Unfiltered}}
    \cup {InvertedFilter(InvertedFilter(f)) :
             f \in RangePool \cup ExactPool \cup {Unfiltered}}
    \cup {InvertedFilter(InvertedFilter(InvertedFilter(f))) : f \in ExactPool}

\* The values the arrays hold: values around the bounds of the filters.
Samples(dtype) == IF dtype = "uint64" THEN {0, 2, 5} ELSE {-3, 0, 2, 5}

\* The arrays the filters are applied to, of one element and of two in
\* ascending order; np.array([]) is of dtype float64.
ArrayPool ==
    UNION {{Array(dtype, <<a>>) : a \in Samples(dtype)}
           \cup {Array(dtype, <<p[1], p[2]>>) :
                    p \in {q \in Samples(dtype) \X Samples(dtype) : q[1] < q[2]}}
           : dtype \in IntegerTypes}
    \cup {Array("float64", <<>>), Array("uint64", <<>>)}

RangeText(a, b) == <<"[">> \o a \o <<";">> \o b \o <<"]">>

\* Segments that parse.
GoodSegments ==
    {IntToStr(5), IntToStr(-3), <<"+">> \o IntToStr(2),
     RangeText(IntToStr(10), IntToStr(20)),
     RangeText(MINUS_INF, IntToStr(5)),
     RangeText(IntToStr(-3), PLUS_INF),
     RangeText(MINUS_INF, INF)}

\* Segments that do not: infinities of the wrong sign, an open bracket, three
\* bounds, a letter, a blank inside a range, nothing.
BadSegments ==
    {RangeText(INF, IntToStr(5)), RangeText(PLUS_INF, IntToStr(5)),
     RangeText(IntToStr(5), MINUS_INF),
     <<"[", "1", ";", "2">>,
     <<"[", "1", ";", "2", ";", "3", "]">>,
     <<"f">>,
     <<"[", "1", ";", " ", "2", "]">>,
     <<>>}

\* Segments int() reads beyond a plain number: digits grouped by "_",
\* whitespace around the number, a digit of another script; and ranges the
\* two modules read differently: a newline after the range, a bound that
\* only int() reads.
OddSegments ==
    {<<"1", "_", "0">>, <<"1", "_", "_", "0">>, <<"5", "\n">>, <<"\t", "5">>,
     <<"U+0663">>,
     RangeText(IntToStr(1), IntToStr(2)) \o <<"\n">>,
     RangeText(<<"1", "_", "0">>, IntToStr(20)),
     RangeText(<<"U+09E9">>, IntToStr(5))}

\* The texts typed into a filter line or given on the command line.
TextPool ==
    GoodSegments \cup BadSegments \cup OddSegments
    \cup {IntToStr(5) \o <<",">> \o b : b \in OddSegments}
    \cup {<<"!">> \o <<"1", "_", "0">>}
    \cup {a \o <<",">> \o b : a \in GoodSegments \cup BadSegments,
                              b \in {IntToStr(5), RangeText(IntToStr(10), IntToStr(20)),
                                     <<"f">>}}
    \cup {IntToStr(5) \o <<",">> \o RangeText(IntToStr(10), IntToStr(20))
              \o <<",">> \o IntToStr(-3)}
    \cup {<<"!">> \o a : a \in {<<>>, IntToStr(5), RangeText(MINUS_INF, IntToStr(5)),
                                <<"f">>, <<"!">> \o IntToStr(5)}}

\* ------------------------------------------------------------------- state

VARIABLES
    disk,        \* the source directory: rank -> the rank file as written
    pc,          \* Uninitialized, MetadataParsed, Aggregating, Ready, Failed
    rank,        \* the rank the running pass of parse_ranks is at
    cache,       \* WorldData._rank_file_cache: None or a dict rank -> RankFile
    opened,      \* how the last open_rank call was served: <<rank, "disk" | "cache">>
    meta,        \* WorldData.meta
    scan,        \* the locals of pass 1: wall_time, component_set, unparsed_localities
    resolved,    \* the locals node_locality, numa_locality, socket_locality, core_locality
    order,       \* the iteration order of the frozenset meta.components
    components,  \* WorldData.components: component -> ComponentData
    error,       \* the exception that ended construction or the last query, or None
    tables,      \* the two weak caches: the keys <<"sizes"|"tags", component, rank>> held
    ret,         \* the value the last query returned, or None
    asked,       \* the last request of a plot and what came of it, or None
    loc_pc,      \* the resolver alone: Raw, Decoded, Rejected, Resolved
    loc_raw,     \* general.localities of every rank file, as written
    loc_decoded, \* unparsed_localities: the decoded claims of every rank
    loc_type,    \* the LocalityType asked for
    loc_result,  \* what _get_localities_from_rfs returned or raised, or None
    fpc,         \* the filters alone: Start, Text, Built, Raised, Printed, Applied,
                 \* ApplyRaised
    lib,         \* the filters module in use: "mpiperfcli" or "filtering"
    text,        \* the filter text at hand
    filter,      \* the filter object at hand, or None
    via,         \* the call that built it
    origin,      \* the filter whose str() the text is, or None
    data,        \* the array the filter was last applied to, or None
    mask         \* the mask that application returned, or None

wvars == <<disk, pc, rank, cache, opened, meta, scan, resolved, order,
           components, error, tables, ret, asked>>

lvars == <<loc_pc, loc_raw, loc_decoded, loc_type, loc_result>>

fvars == <<fpc, lib, text, filter, via, origin, data, mask>>

vars == <<wvars, lvars, fvars>>

\* ---------------------------------------------------------------- open_rank

\* WorldData.open_rank: the cached record when the cache is on and holds the
\* rank, else the file read and decoded (and stored when the cache is on).
open_rank(d, c, r) ==
    IF ~IsNone(c) /\ HasKey(Get(c), r)
    THEN [ok |-> TRUE, rf |-> Lookup(Get(c), r), cache |-> c,
          opened |-> <<r, "cache">>, err |-> NoErr]
    ELSE IF r \notin DOMAIN d
    THEN [ok |-> FALSE, rf |-> <<>>, cache |-> c, opened |-> <<r, "disk">>,
          err |-> Some(Err("FileNotFoundError", "pc_data", <<r>>))]
    ELSE Bind(from_toml(d[r]), LAMBDA parsed :
             IF ~parsed.ok
             THEN [ok |-> FALSE, rf |-> <<>>, cache |-> c, opened |-> <<r, "disk">>,
                   err |-> Some(Err("SerdeError", "decode", <<r>>))]
             ELSE [ok |-> TRUE, rf |-> parsed.v,
                   cache |-> IF IsNone(c) THEN c
                             ELSE Some(DictSet(Get(c), r, parsed.v)),
                   opened |-> <<r, "disk">>, err |-> NoErr])

\* ------------------------------------------------------------ construction

EmptyMeta ==
    [num_processes |-> 0, components |-> {},
     num_nodes |-> None, num_cores |-> None, num_numa |-> None, num_sockets |-> None]

EmptyScan == [wall_time |-> 0, component_set |-> {}, unparsed_localities |-> <<>>]

EmptyResolved == [node |-> None, numa |-> None, socket |-> None, core |-> None]

\* The resolver at rest.
LocOff ==
    /\ loc_pc = "Off"
    /\ loc_raw = <<>>
    /\ loc_decoded = <<>>
    /\ loc_type = ""
    /\ loc_result = None

\* The call that built the filter at hand: its name and its arguments.
Call(op, tolerant, checked, mode) ==
    [op |-> op, tolerant |-> tolerant, checked |-> checked, mode |-> mode]

NoCall == Call("", FALSE, FALSE, "")

\* The filters at rest.
FilterOff ==
    /\ fpc = "Off"
    /\ lib = "mpiperfcli"
    /\ text = <<>>
    /\ filter = None
    /\ via = NoCall
    /\ origin = None
    /\ data = None
    /\ mask = None

\* The state before construction, the source directory one of D.
InitOn(D) ==
    /\ disk \in D
    /\ pc = "Uninitialized"
    /\ rank = 0
    /\ cache = None
    /\ opened = <<>>
    /\ meta = EmptyMeta
    /\ scan = EmptyScan
    /\ resolved = EmptyResolved
    /\ order = <<>>
    /\ components = <<>>
    /\ error = None
    /\ tables = <<>>
    /\ ret = None
    /\ asked = None
    /\ LocOff
    /\ FilterOff

Init == InitOn(Directories)

InitTables == InitOn(TableDirectories)

\* WorldData.parse_metadata
parse_metadata ==
    /\ pc = "Uninitialized"
    /\ \E o \in {open_rank(disk, None, 0)} :
           IF ~o.ok
           THEN /\ pc' = "Failed"
                /\ error' = o.err
                /\ opened' = o.opened
                /\ UNCHANGED <<meta, cache>>
           ELSE /\ pc' = "MetadataParsed"
                /\ meta' = [EmptyMeta EXCEPT !.num_processes = o.rf.general.num_procs]
                /\ cache' = IF o.rf.general.num_procs < RANK_FILE_CACHE_THRESHOLD
                            THEN Some(<<<<0, o.rf>>>>) ELSE None
                /\ opened' = o.opened
                /\ UNCHANGED error
    /\ UNCHANGED <<disk, rank, scan, resolved, order, components, tables, ret, asked>>
    /\ UNCHANGED <<lvars, fvars>>

Max(a, b) == IF a >= b THEN a ELSE b

\* The mutation of the discovery of pass 1 that reads sent_count alone.
ComponentsOf_counts_only(rf) ==
    UNION {Keys(rf.peers[i][2].sent_count) : i \in 1..Len(rf.peers)}

\* The component names a rank file refers to, from both maps of every peer.
ComponentsOf(rf) ==
    UNION {Keys(rf.peers[i][2].sent_count) \cup Keys(rf.peers[i][2].sent_messages)
           : i \in 1..Len(rf.peers)}

\* The mutation of pass 1 that leaves out the assertion on own_rank.
pass1_step_unasserted ==
    /\ pc = "MetadataParsed"
    /\ rank < meta.num_processes
    /\ \E o \in {open_rank(disk, cache, rank)} :
           /\ opened' = o.opened
           /\ cache' = o.cache
           /\ IF ~o.ok
              THEN /\ pc' = "Failed"
                   /\ error' = o.err
                   /\ UNCHANGED <<scan, rank>>
              ELSE /\ scan' =
                        [wall_time |-> Max(scan.wall_time, o.rf.general.wall_time),
                         component_set |-> scan.component_set \cup ComponentsOf(o.rf),
                         unparsed_localities |->
                             Append(scan.unparsed_localities, o.rf.general.localities)]
                   /\ rank' = rank + 1
                   /\ UNCHANGED <<pc, error>>
    /\ UNCHANGED <<disk, meta, resolved, order, components, tables, ret, asked>>
    /\ UNCHANGED <<lvars, fvars>>

\* parse_ranks, pass 1, one iteration of the loop (lines 321-328)
pass1_step ==
    /\ pc = "MetadataParsed"
    /\ rank < meta.num_processes
    /\ \E o \in {open_rank(disk, cache, rank)} :
           /\ opened' = o.opened
           /\ cache' = o.cache
           /\ IF ~o.ok
              THEN /\ pc' = "Failed"
                   /\ error' = o.err
                   /\ UNCHANGED <<scan, rank>>
              ELSE /\ scan' =
                        [wall_time |-> Max(scan.wall_time, o.rf.general.wall_time),
                         component_set |-> scan.component_set \cup ComponentsOf(o.rf),
                         unparsed_localities |->
                             Append(scan.unparsed_localities, o.rf.general.localities)]
                   /\ IF o.rf.general.own_rank = rank
                      THEN /\ rank' = rank + 1
                           /\ UNCHANGED <<pc, error>>
                      ELSE /\ pc' = "Failed"
                           /\ error' = Some(Err("AssertionError", "own_rank", <<>>))
                           /\ UNCHANGED rank
    /\ UNCHANGED <<disk, meta, resolved, order, components, tables, ret, asked>>
    /\ UNCHANGED <<lvars, fvars>>

Perms(S) == {p \in [1..Cardinality(S) -> S] : Range(p) = S}

GroupsOf(res) == IF res.kind = "groups" THEN Some(res.groups) ELSE None

CountOf(res) == IF res.kind = "groups" THEN Some(Len(res.groups)) ELSE None

\* parse_ranks between the passes (lines 330-346): the component set, one
\* ComponentData per component, the four locality kinds resolved in the
\* order node, NUMA, socket, core.
pass1_done ==
    /\ pc = "MetadataParsed"
    /\ rank = meta.num_processes
    /\ \E n \in {meta.num_processes},
          node \in {get_localities_from_rfs(scan.unparsed_localities, "node")},
          numa \in {get_localities_from_rfs(scan.unparsed_localities, "NUMA")},
          socket \in {get_localities_from_rfs(scan.unparsed_localities, "socket")},
          core \in {get_localities_from_rfs(scan.unparsed_localities, "hwcore")} :
       \E failed \in {SelectSeq(<<node, numa, socket, core>>,
                                LAMBDA res : res.kind = "error")} :
           /\ \E o \in Perms(scan.component_set) : order' = o
           /\ components' = [c \in scan.component_set |-> NewComponentData(n)]
           /\ IF failed # <<>>
              THEN /\ pc' = "Failed"
                   /\ error' = Some(failed[1].err)
                   /\ meta' = [meta EXCEPT !.components = scan.component_set]
                   /\ UNCHANGED resolved
              ELSE /\ pc' = "Aggregating"
                   /\ resolved' = [node |-> GroupsOf(node), numa |-> GroupsOf(numa),
                                   socket |-> GroupsOf(socket), core |-> GroupsOf(core)]
                   /\ meta' = [meta EXCEPT !.components = scan.component_set,
                                           !.num_nodes = CountOf(node),
                                           !.num_cores = CountOf(core),
                                           !.num_numa = CountOf(numa),
                                           !.num_sockets = CountOf(socket)]
                   /\ UNCHANGED error
    /\ rank' = 0
    /\ UNCHANGED <<disk, cache, opened, scan, tables, ret, asked>>
    /\ UNCHANGED <<lvars, fvars>>

\* parse_ranks, pass 2, one iteration of the loop (lines 348-367)
pass2_step ==
    /\ pc = "Aggregating"
    /\ rank < meta.num_processes
    /\ \E o \in {open_rank(disk, cache, rank)} :
           /\ opened' = o.opened
           /\ cache' = o.cache
           /\ IF ~o.ok
              THEN /\ pc' = "Failed"
                   /\ error' = o.err
                   /\ UNCHANGED <<components, rank>>
              ELSE \E r \in {Pass2Rank(components, order, o.rf, meta.num_processes)} :
                       /\ components' = r.components
                       /\ IF IsNone(r.err)
                          THEN /\ rank' = rank + 1
                               /\ UNCHANGED <<pc, error>>
                          ELSE /\ pc' = "Failed"
                               /\ error' = r.err
                               /\ UNCHANGED rank
    /\ UNCHANGED <<disk, meta, scan, resolved, order, tables, ret, asked>>
    /\ UNCHANGED <<lvars, fvars>>

\* parse_ranks, the regrouping loop (lines 369-373); construction returns.
regroup_all ==
    /\ pc = "Aggregating"
    /\ rank = meta.num_processes
    /\ components' =
          [c \in DOMAIN components |->
              [components[c] EXCEPT
                  !.by_numa = regroup(components[c].by_rank, resolved.numa),
                  !.by_socket = regroup(components[c].by_rank, resolved.socket),
                  !.by_node = regroup(components[c].by_rank, resolved.node),
                  !.by_core = regroup(components[c].by_rank, resolved.core)]]
    /\ pc' = "Ready"
    /\ UNCHANGED <<disk, rank, cache, opened, meta, scan, resolved, order,
                   error, tables, ret, asked>>
    /\ UNCHANGED <<lvars, fvars>>

\* ------------------------------------------------------------------ queries

Restrict(f, S) == [x \in S |-> f[x]]

Extend(f, k, v) == [x \in DOMAIN f \cup {k} |-> IF x = k THEN v ELSE f[x]]

\* The mutation of the two methods in which tags() builds its table with
\* SizeData.from_rf, as sizes() does.
Table_sizes_for_tags(what, c, r) ==
    /\ pc = "Ready"
    /\ asked' = Some(<<what, c, r>>)
    /\ IF <<what, c, r>> \in DOMAIN tables
       THEN /\ ret' = Some(tables[<<what, c, r>>])
            /\ error' = None
            /\ UNCHANGED <<tables, cache, opened>>
       ELSE /\ Cardinality(DOMAIN tables) < MaxTables
            /\ \E o \in {open_rank(disk, cache, r)} :
                /\ opened' = o.opened
                /\ cache' = o.cache
                /\ IF ~o.ok
                   THEN /\ error' = o.err
                        /\ ret' = None
                        /\ UNCHANGED tables
                   ELSE \E t \in {SizeData_from_rf(o.rf, c)} :
                        IF ~t.ok
                        THEN /\ error' = t.err
                             /\ ret' = None
                             /\ UNCHANGED tables
                        ELSE /\ error' = None
                             /\ ret' = Some(t.v)
                             /\ tables' = Extend(tables, <<what, c, r>>, t.v)
    /\ UNCHANGED <<disk, pc, rank, meta, scan, resolved, order, components>>
    /\ UNCHANGED <<lvars, fvars>>

\* ComponentData.sizes (what = "sizes") and ComponentData.tags (what =
\* "tags"): the table the weak cache holds, else the rank's record opened,
\* the table built by from_rf, stored and returned.
Table(what, c, r) ==
    /\ pc = "Ready"
    /\ asked' = Some(<<what, c, r>>)
    /\ IF <<what, c, r>> \in DOMAIN tables
       THEN /\ ret' = Some(tables[<<what, c, r>>])
            /\ error' = None
            /\ UNCHANGED <<tables, cache, opened>>
       ELSE /\ Cardinality(DOMAIN tables) < MaxTables
            /\ \E o \in {open_rank(disk, cache, r)} :
                /\ opened' = o.opened
                /\ cache' = o.cache
                /\ IF ~o.ok
                   THEN /\ error' = o.err
                        /\ ret' = None
                        /\ UNCHANGED tables
                   ELSE \E t \in {IF what = "sizes" THEN SizeData_from_rf(o.rf, c)
                                  ELSE TagData_from_rf(o.rf, c)} :
                        IF ~t.ok
                        THEN /\ error' = t.err
                             /\ ret' = None
                             /\ UNCHANGED tables
                        ELSE /\ error' = None
                             /\ ret' = Some(t.v)
                             /\ tables' = Extend(tables, <<what, c, r>>, t.v)
    /\ UNCHANGED <<disk, pc, rank, meta, scan, resolved, order, components>>
    /\ UNCHANGED <<lvars, fvars>>

\* The ranks tables are asked for in a run of n processes: the first, the
\* last and the one past the last, which are all the ranks of a run of two.
AskedRanks(n) == {0, n - 1, n} \cap 0..n

sizes ==
    \E c \in DOMAIN components, r \in AskedRanks(meta.num_processes) :
        Table("sizes", c, r)

tags ==
    \E c \in DOMAIN components, r \in AskedRanks(meta.num_processes) :
        Table("tags", c, r)

\* MatrixGroupBy
MatrixGroupBy == {"Rank", "Core", "NUMA Node", "Socket", "Node"}

\* The mutation of MatrixPlotBase.group that hands out the rank-level
\* matrices when the grouping is absent.
MatrixPlotBase_group_fallback(component_data, group_by) ==
    Bind(CASE group_by = "Rank" -> Some(component_data.by_rank)
           [] group_by = "Core" -> component_data.by_core
           [] group_by = "NUMA Node" -> component_data.by_numa
           [] group_by = "Socket" -> component_data.by_socket
           [] group_by = "Node" -> component_data.by_node,
         LAMBDA g :
            [ok |-> TRUE, v |-> IF IsNone(g) THEN Some(component_data.by_rank) ELSE g,
             err |-> NoErr])

\* MatrixPlotBase.group: the matrices of the component under the grouping
\* asked for, or the Exception "Cannot group by ... due to missing data."
MatrixPlotBase_group(component_data, group_by) ==
    Bind(CASE group_by = "Rank" -> Some(component_data.by_rank)
           [] group_by = "Core" -> component_data.by_core
           [] group_by = "NUMA Node" -> component_data.by_numa
           [] group_by = "Socket" -> component_data.by_socket
           [] group_by = "Node" -> component_data.by_node,
         LAMBDA g :
            IF IsNone(g)
            THEN [ok |-> FALSE, v |-> None,
                  err |-> Some(Err("Exception", "missing data", <<>>))]
            ELSE [ok |-> TRUE, v |-> g, err |-> NoErr])

\* A matrix plot of a component asks for its matrices under a grouping.
group ==
    /\ pc = "Ready"
    /\ \E c \in DOMAIN components, group_by \in MatrixGroupBy :
          /\ asked' = Some(<<"group", c, group_by>>)
          /\ \E g \in {MatrixPlotBase_group(components[c], group_by)} :
                /\ ret' = g.v
                /\ error' = g.err
    /\ UNCHANGED <<disk, pc, rank, cache, opened, meta, scan, resolved, order,
                   components, tables>>
    /\ UNCHANGED <<lvars, fvars>>

\* The caller lets go of what the last query gave it, and the garbage
\* collector drops a table nothing else refers to.
evict ==
    /\ pc = "Ready"
    /\ \E k \in DOMAIN tables : tables' = Restrict(tables, DOMAIN tables \ {k})
    /\ ret' = None
    /\ asked' = None
    /\ error' = None
    /\ UNCHANGED <<disk, pc, rank, cache, opened, meta, scan, resolved, order,
                   components>>
    /\ UNCHANGED <<lvars, fvars>>

Next ==
    \/ parse_metadata
    \/ pass1_step
    \/ pass1_done
    \/ pass2_step
    \/ regroup_all
    \/ sizes
    \/ tags
    \/ evict

Spec == Init /\ [][Next]_vars

\* The same program on the directories loaded with and without the cache of
\* rank files.
SpecTables == InitTables /\ [][Next]_vars

\* ------------------------------------------------- the plots of a loaded run

\* Construction, then the matrix plots asking for their matrices.
NextPlot ==
    \/ parse_metadata
    \/ pass1_step
    \/ pass1_done
    \/ pass2_step
    \/ regroup_all
    \/ group

SpecPlot == Init /\ [][NextPlot]_vars

\* -------------------------------------------------------- the plots at work

\* The keys of RANK_PLOTS and of MATRIX_PLOTS: the cli_name of every class.
RANK_PLOTS == {"sizes_3d", "sizes_px", "tags_3d", "tags_px", "counts"}

MATRIX_PLOTS == {"total_matrix", "msgs_matrix"}

\* The rank plots whose constructor asks for the table of tags, and those
\* whose constructor asks for the table of sizes.
TagPlots == {"tags_3d", "tags_px"}

SizePlots == {"sizes_3d", "sizes_px"}

\* The letters of ASCII, small and capital.
LowerCase ==
    <<"a", "b", "c", "d", "e", "f", "g", "h", "i", "j", "k", "l", "m",
      "n", "o", "p", "q", "r", "s", "t", "u", "v", "w", "x", "y", "z">>

UpperCase ==
    <<"A", "B", "C", "D", "E", "F", "G", "H", "I", "J", "K", "L", "M",
      "N", "O", "P", "Q", "R", "S", "T", "U", "V", "W", "X", "Y", "Z">>

\* The characters outside ASCII that str.upper changes, each with the
\* characters it becomes (the full case mapping of Unicode: one character may
\* become two or three).
UpperCaseMapping ==
    <<<<"U+00B5", <<"U+039C">>>>, <<"U+00DF", <<"S", "S">>>>, <<"U+00E0", <<"U+00C0">>>>,
     <<"U+00E1", <<"U+00C1">>>>, <<"U+00E2", <<"U+00C2">>>>, <<"U+00E3", <<"U+00C3">>>>,
     <<"U+00E4", <<"U+00C4">>>>, <<"U+00E5", <<"U+00C5">>>>, <<"U+00E6", <<"U+00C6">>>>,
     <<"U+00E7", <<"U+00C7">>>>, <<"U+00E8", <<"U+00C8">>>>, <<"U+00E9", <<"U+00C9">>>>,
     <<"U+00EA", <<"U+00CA">>>>, <<"U+00EB", <<"U+00CB">>>>, <<"U+00EC", <<"U+00CC">>>>,
     <<"U+00ED", <<"U+00CD">>>>, <<"U+00EE", <<"U+00CE">>>>, <<"U+00EF", <<"U+00CF">>>>,
     <<"U+00F0", <<"U+00D0">>>>, <<"U+00F1", <<"U+00D1">>>>, <<"U+00F2", <<"U+00D2">>>>,
     <<"U+00F3", <<"U+00D3">>>>, <<"U+00F4", <<"U+00D4">>>>, <<"U+00F5", <<"U+00D5">>>>,
     <<"U+00F6", <<"U+00D6">>>>, <<"U+00F8", <<"U+00D8">>>>, <<"U+00F9", <<"U+00D9">>>>,
     <<"U+00FA", <<"U+00DA">>>>, <<"U+00FB", <<"U+00DB">>>>, <<"U+00FC", <<"U+00DC">>>>,
     <<"U+00FD", <<"U+00DD">>>>, <<"U+00FE", <<"U+00DE">>>>, <<"U+00FF", <<"U+0178">>>>,
     <<"U+0101", <<"U+0100">>>>, <<"U+0103", <<"U+0102">>>>, <<"U+0105", <<"U+0104">>>>,
     <<"U+0107", <<"U+0106">>>>, <<"U+0109", <<"U+0108">>>>, <<"U+010B", <<"U+010A">>>>,
     <<"U+010D", <<"U+010C">>>>, <<"U+010F", <<"U+010E">>>>, <<"U+0111", <<"U+0110">>>>,
     <<"U+0113", <<"U+0112">>>>, <<"U+0115", <<"U+0114">>>>, <<"U+0117", <<"U+0116">>>>,
     <<"U+0119", <<"U+0118">>>>, <<"U+011B", <<"U+011A">>>>, <<"U+011D", <<"U+011C">>>>,
     <<"U+011F", <<"U+011E">>>>, <<"U+0121", <<"U+0120">>>>, <<"U+0123", <<"U+0122">>>>,
     <<"U+0125", <<"U+0124">>>>, <<"U+0127", <<"U+0126">>>>, <<"U+0129", <<"U+0128">>>>,
     <<"U+012B", <<"U+012A">>>>, <<"U+012D", <<"U+012C">>>>, <<"U+012F", <<"U+012E">>>>,
     <<"U+0131", <<"I">>>>, <<"U+0133", <<"U+0132">>>>, <<"U+0135", <<"U+0134">>>>,
     <<"U+0137", <<"U+0136">>>>, <<"U+013A", <<"U+0139">>>>, <<"U+013C", <<"U+013B">>>>,
     <<"U+013E", <<"U+013D">>>>, <<"U+0140", <<"U+013F">>>>, <<"U+0142", <<"U+0141">>>>,
     <<"U+0144", <<"U+0143">>>>, <<"U+0146", <<"U+0145">>>>, <<"U+0148", <<"U+0147">>>>,
     <<"U+0149", <<"U+02BC", "N">>>>, <<"U+014B", <<"U+014A">>>>, <<"U+014D", <<"U+014C">>>>,
     <<"U+014F", <<"U+014E">>>>, <<"U+0151", <<"U+0150">>>>, <<"U+0153", <<"U+0152">>>>,
     <<"U+0155", <<"U+0154">>>>, <<"U+0157", <<"U+0156">>>>, <<"U+0159", <<"U+0158">>>>,
     <<"U+015B", <<"U+015A">>>>, <<"U+015D", <<"U+015C">>>>, <<"U+015F", <<"U+015E">>>>,
     <<"U+0161", <<"U+0160">>>>, <<"U+0163", <<"U+0162">>>>, <<"U+0165", <<"U+0164">>>>,
     <<"U+0167", <<"U+0166">>>>, <<"U+0169", <<"U+0168">>>>, <<"U+016B", <<"U+016A">>>>,
     <<"U+016D", <<"U+016C">>>>, <<"U+016F", <<"U+016E">>>>, <<"U+0171", <<"U+0170">>>>,
     <<"U+0173", <<"U+0172">>>>, <<"U+0175", <<"U+0174">>>>, <<"U+0177", <<"U+0176">>>>,
     <<"U+017A", <<"U+0179">>>>, <<"U+017C", <<"U+017B">>>>, <<"U+017E", <<"U+017D">>>>,
     <<"U+017F", <<"S">>>>, <<"U+0180", <<"U+0243">>>>, <<"U+0183", <<"U+0182">>>>,
     <<"U+0185", <<"U+0184">>>>, <<"U+0188", <<"U+0187">>>>, <<"U+018C", <<"U+018B">>>>,
     <<"U+0192", <<"U+0191">>>>, <<"U+0195", <<"U+01F6">>>>, <<"U+0199", <<"U+0198">>>>,
     <<"U+019A", <<"U+023D">>>>, <<"U+019E", <<"U+0220">>>>, <<"U+01A1", <<"U+01A0">>>>,
     <<"U+01A3", <<"U+01A2">>>>, <<"U+01A5", <<"U+01A4">>>>, <<"U+01A8", <<"U+01A7">>>>,
     <<"U+01AD", <<"U+01AC">>>>, <<"U+01B0", <<"U+01AF">>>>, <<"U+01B4", <<"U+01B3">>>>,
     <<"U+01B6", <<"U+01B5">>>>, <<"U+01B9", <<"U+01B8">>>>, <<"U+01BD", <<"U+01BC">>>>,
     <<"U+01BF", <<"U+01F7">>>>, <<"U+01C5", <<"U+01C4">>>>, <<"U+01C6", <<"U+01C4">>>>,
     <<"U+01C8", <<"U+01C7">>>>, <<"U+01C9", <<"U+01C7">>>>, <<"U+01CB", <<"U+01CA">>>>,
     <<"U+01CC", <<"U+01CA">>>>, <<"U+01CE", <<"U+01CD">>>>, <<"U+01D0", <<"U+01CF">>>>,
     <<"U+01D2", <<"U+01D1">>>>, <<"U+01D4", <<"U+01D3">>>>, <<"U+01D6", <<"U+01D5">>>>,
     <<"U+01D8", <<"U+01D7">>>>, <<"U+01DA", <<"U+01D9">>>>, <<"U+01DC", <<"U+01DB">>>>,
     <<"U+01DD", <<"U+018E">>>>, <<"U+01DF", <<"U+01DE">>>>, <<"U+01E1", <<"U+01E0">>>>,
     <<"U+01E3", <<"U+01E2">>>>, <<"U+01E5", <<"U+01E4">>>>, <<"U+01E7", <<"U+01E6">>>>,
     <<"U+01E9", <<"U+01E8">>>>, <<"U+01EB", <<"U+01EA">>>>, <<"U+01ED", <<"U+01EC">>>>,
     <<"U+01EF", <<"U+01EE">>>>, <<"U+01F0", <<"J", "U+030C">>>>, <<"U+01F2", <<"U+01F1">>>>,
     <<"U+01F3", <<"U+01F1">>>>, <<"U+01F5", <<"U+01F4">>>>, <<"U+01F9", <<"U+01F8">>>>,
     <<"U+01FB", <<"U+01FA">>>>, <<"U+01FD", <<"U+01FC">>>>, <<"U+01FF", <<"U+01FE">>>>,
     <<"U+0201", <<"U+0200">>>>, <<"U+0203", <<"U+0202">>>>, <<"U+0205", <<"U+0204">>>>,
     <<"U+0207", <<"U+0206">>>>, <<"U+0209", <<"U+0208">>>>, <<"U+020B", <<"U+020A">>>>,
     <<"U+020D", <<"U+020C">>>>, <<"U+020F", <<"U+020E">>>>, <<"U+0211", <<"U+0210">>>>,
     <<"U+0213", <<"U+0212">>>>, <<"U+0215", <<"U+0214">>>>, <<"U+0217", <<"U+0216">>>>,
     <<"U+0219", <<"U+0218">>>>, <<"U+021B", <<"U+021A">>>>, <<"U+021D", <<"U+021C">>>>,
     <<"U+021F", <<"U+021E">>>>, <<"U+0223", <<"U+0222">>>>, <<"U+0225", <<"U+0224">>>>,
     <<"U+0227", <<"U+0226">>>>, <<"U+0229", <<"U+0228">>>>, <<"U+022B", <<"U+022A">>>>,
     <<"U+022D", <<"U+022C">>>>, <<"U+022F", <<"U+022E">>>>, <<"U+0231", <<"U+0230">>>>,
     <<"U+0233", <<"U+0232">>>>, <<"U+023C", <<"U+023B">>>>, <<"U+023F", <<"U+2C7E">>>>,
     <<"U+0240", <<"U+2C7F">>>>, <<"U+0242", <<"U+0241">>>>, <<"U+0247", <<"U+0246">>>>,
     <<"U+0249", <<"U+0248">>>>, <<"U+024B", <<"U+024A">>>>, <<"U+024D", <<"U+024C">>>>,
     <<"U+024F", <<"U+024E">>>>, <<"U+0250", <<"U+2C6F">>>>, <<"U+0251", <<"U+2C6D">>>>,
     <<"U+0252", <<"U+2C70">>>>, <<"U+0253", <<"U+0181">>>>, <<"U+0254", <<"U+0186">>>>,
     <<"U+0256", <<"U+0189">>>>, <<"U+0257", <<"U+018A">>>>, <<"U+0259", <<"U+018F">>>>,
     <<"U+025B", <<"U+0190">>>>, <<"U+025C", <<"U+A7AB">>>>, <<"U+0260", <<"U+0193">>>>,
     <<"U+0261", <<"U+A7AC">>>>, <<"U+0263", <<"U+0194">>>>, <<"U+0265", <<"U+A78D">>>>,
     <<"U+0266", <<"U+A7AA">>>>, <<"U+0268", <<"U+0197">>>>, <<"U+0269", <<"U+0196">>>>,
     <<"U+026A", <<"U+A7AE">>>>, <<"U+026B", <<"U+2C62">>>>, <<"U+026C", <<"U+A7AD">>>>,
     <<"U+026F", <<"U+019C">>>>, <<"U+0271", <<"U+2C6E">>>>, <<"U+0272", <<"U+019D">>>>,
     <<"U+0275", <<"U+019F">>>>, <<"U+027D", <<"U+2C64">>>>, <<"U+0280", <<"U+01A6">>>>,
     <<"U+0282", <<"U+A7C5">>>>, <<"U+0283", <<"U+01A9">>>>, <<"U+0287", <<"U+A7B1">>>>,
     <<"U+0288", <<"U+01AE">>>>, <<"U+0289", <<"U+0244">>>>, <<"U+028A", <<"U+01B1">>>>,
     <<"U+028B", <<"U+01B2">>>>, <<"U+028C", <<"U+0245">>>>, <<"U+0292", <<"U+01B7">>>>,
     <<"U+029D", <<"U+A7B2">>>>, <<"U+029E", <<"U+A7B0">>>>, <<"U+0345", <<"U+0399">>>>,
     <<"U+0371", <<"U+0370">>>>, <<"U+0373", <<"U+0372">>>>, <<"U+0377", <<"U+0376">>>>,
     <<"U+037B", <<"U+03FD">>>>, <<"U+037C", <<"U+03FE">>>>, <<"U+037D", <<"U+03FF">>>>,
     <<"U+0390", <<"U+0399", "U+0308", "U+0301">>>>, <<"U+03AC", <<"U+0386">>>>,
     <<"U+03AD", <<"U+0388">>>>, <<"U+03AE", <<"U+0389">>>>, <<"U+03AF", <<"U+038A">>>>,
     <<"U+03B0", <<"U+03A5", "U+0308", "U+0301">>>>, <<"U+03B1", <<"U+0391">>>>,
     <<"U+03B2", <<"U+0392">>>>, <<"U+03B3", <<"U+0393">>>>, <<"U+03B4", <<"U+0394">>>>,
     <<"U+03B5", <<"U+0395">>>>, <<"U+03B6", <<"U+0396">>>>, <<"U+03B7", <<"U+0397">>>>,
     <<"U+03B8", <<"U+0398">>>>, <<"U+03B9", <<"U+0399">>>>, <<"U+03BA", <<"U+039A">>>>,
     <<"U+03BB", <<"U+039B">>>>, <<"U+03BC", <<"U+039C">>>>, <<"U+03BD", <<"U+039D">>>>,
     <<"U+03BE", <<"U+039E">>>>, <<"U+03BF", <<"U+039F">>>>, <<"U+03C0", <<"U+03A0">>>>,
     <<"U+03C1", <<"U+03A1">>>>, <<"U+03C2", <<"U+03A3">>>>, <<"U+03C3", <<"U+03A3">>>>,
     <<"U+03C4", <<"U+03A4">>>>, <<"U+03C5", <<"U+03A5">>>>, <<"U+03C6", <<"U+03A6">>>>,
     <<"U+03C7", <<"U+03A7">>>>, <<"U+03C8", <<"U+03A8">>>>, <<"U+03C9", <<"U+03A9">>>>,
     <<"U+03CA", <<"U+03AA">>>>, <<"U+03CB", <<"U+03AB">>>>, <<"U+03CC", <<"U+038C">>>>,
     <<"U+03CD", <<"U+038E">>>>, <<"U+03CE", <<"U+038F">>>>, <<"U+03D0", <<"U+0392">>>>,
     <<"U+03D1", <<"U+0398">>>>, <<"U+03D5", <<"U+03A6">>>>, <<"U+03D6", <<"U+03A0">>>>,
     <<"U+03D7", <<"U+03CF">>>>, <<"U+03D9", <<"U+03D8">>>>, <<"U+03DB", <<"U+03DA">>>>,
     <<"U+03DD", <<"U+03DC">>>>, <<"U+03DF", <<"U+03DE">>>>, <<"U+03E1", <<"U+03E0">>>>,
     <<"U+03E3", <<"U+03E2">>>>, <<"U+03E5", <<"U+03E4">>>>, <<"U+03E7", <<"U+03E6">>>>,
     <<"U+03E9", <<"U+03E8">>>>, <<"U+03EB", <<"U+03EA">>>>, <<"U+03ED", <<"U+03EC">>>>,
     <<"U+03EF", <<"U+03EE">>>>, <<"U+03F0", <<"U+039A">>>>, <<"U+03F1", <<"U+03A1">>>>,
     <<"U+03F2", <<"U+03F9">>>>, <<"U+03F3", <<"U+037F">>>>, <<"U+03F5", <<"U+0395">>>>,
     <<"U+03F8", <<"U+03F7">>>>, <<"U+03FB", <<"U+03FA">>>>, <<"U+0430", <<"U+0410">>>>,
     <<"U+0431", <<"U+0411">>>>, <<"U+0432", <<"U+0412">>>>, <<"U+0433", <<"U+0413">>>>,
     <<"U+0434", <<"U+0414">>>>, <<"U+0435", <<"U+0415">>>>, <<"U+0436", <<"U+0416">>>>,
     <<"U+0437", <<"U+0417">>>>, <<"U+0438", <<"U+0418">>>>, <<"U+0439", <<"U+0419">>>>,
     <<"U+043A", <<"U+041A">>>>, <<"U+043B", <<"U+041B">>>>, <<"U+043C", <<"U+041C">>>>,
     <<"U+043D", <<"U+041D">>>>, <<"U+043E", <<"U+041E">>>>, <<"U+043F", <<"U+041F">>>>,
     <<"U+0440", <<"U+0420">>>>, <<"U+0441", <<"U+0421">>>>, <<"U+0442", <<"U+0422">>>>,
     <<"U+0443", <<"U+0423">>>>, <<"U+0444", <<"U+0424">>>>, <<"U+0445", <<"U+0425">>>>,
     <<"U+0446", <<"U+0426">>>>, <<"U+0447", <<"U+0427">>>>, <<"U+0448", <<"U+0428">>>>,
     <<"U+0449", <<"U+0429">>>>, <<"U+044A", <<"U+042A">>>>, <<"U+044B", <<"U+042B">>>>,
     <<"U+044C", <<"U+042C">>>>, <<"U+044D", <<"U+042D">>>>, <<"U+044E", <<"U+042E">>>>,
     <<"U+044F", <<"U+042F">>>>, <<"U+0450", <<"U+0400">>>>, <<"U+0451", <<"U+0401">>>>,
     <<"U+0452", <<"U+0402">>>>, <<"U+0453", <<"U+0403">>>>, <<"U+0454", <<"U+0404">>>>,
     <<"U+0455", <<"U+0405">>>>, <<"U+0456", <<"U+0406">>>>, <<"U+0457", <<"U+0407">>>>,
     <<"U+0458", <<"U+0408">>>>, <<"U+0459", <<"U+0409">>>>, <<"U+045A", <<"U+040A">>>>,
     <<"U+045B", <<"U+040B">>>>, <<"U+045C", <<"U+040C">>>>, <<"U+045D", <<"U+040D">>>>,
     <<"U+045E", <<"U+040E">>>>, <<"U+045F", <<"U+040F">>>>, <<"U+0461", <<"U+0460">>>>,
     <<"U+0463", <<"U+0462">>>>, <<"U+0465", <<"U+0464">>>>, <<"U+0467", <<"U+0466">>>>,
     <<"U+0469", <<"U+0468">>>>, <<"U+046B", <<"U+046A">>>>, <<"U+046D", <<"U+046C">>>>,
     <<"U+046F", <<"U+046E">>>>, <<"U+0471", <<"U+0470">>>>, <<"U+0473", <<"U+0472">>>>,
     <<"U+0475", <<"U+0474">>>>, <<"U+0477", <<"U+0476">>>>, <<"U+0479", <<"U+0478">>>>,
     <<"U+047B", <<"U+047A">>>>, <<"U+047D", <<"U+047C">>>>, <<"U+047F", <<"U+047E">>>>,
     <<"U+0481", <<"U+0480">>>>, <<"U+048B", <<"U+048A">>>>, <<"U+048D", <<"U+048C">>>>,
     <<"U+048F", <<"U+048E">>>>, <<"U+0491", <<"U+0490">>>>, <<"U+0493", <<"U+0492">>>>,
     <<"U+0495", <<"U+0494">>>>, <<"U+0497", <<"U+0496">>>>, <<"U+0499", <<"U+0498">>>>,
     <<"U+049B", <<"U+049A">>>>, <<"U+049D", <<"U+049C">>>>, <<"U+049F", <<"U+049E">>>>,
     <<"U+04A1", <<"U+04A0">>>>, <<"U+04A3", <<"U+04A2">>>>, <<"U+04A5", <<"U+04A4">>>>,
     <<"U+04A7", <<"U+04A6">>>>, <<"U+04A9", <<"U+04A8">>>>, <<"U+04AB", <<"U+04AA">>>>,
     <<"U+04AD", <<"U+04AC">>>>, <<"U+04AF", <<"U+04AE">>>>, <<"U+04B1", <<"U+04B0">>>>,
     <<"U+04B3", <<"U+04B2">>>>, <<"U+04B5", <<"U+04B4">>>>, <<"U+04B7", <<"U+04B6">>>>,
     <<"U+04B9", <<"U+04B8">>>>, <<"U+04BB", <<"U+04BA">>>>, <<"U+04BD", <<"U+04BC">>>>,
     <<"U+04BF", <<"U+04BE">>>>, <<"U+04C2", <<"U+04C1">>>>, <<"U+04C4", <<"U+04C3">>>>,
     <<"U+04C6", <<"U+04C5">>>>, <<"U+04C8", <<"U+04C7">>>>, <<"U+04CA", <<"U+04C9">>>>,
     <<"U+04CC", <<"U+04CB">>>>, <<"U+04CE", <<"U+04CD">>>>, <<"U+04CF", <<"U+04C0">>>>,
     <<"U+04D1", <<"U+04D0">>>>, <<"U+04D3", <<"U+04D2">>>>, <<"U+04D5", <<"U+04D4">>>>,
     <<"U+04D7", <<"U+04D6">>>>, <<"U+04D9", <<"U+04D8">>>>, <<"U+04DB", <<"U+04DA">>>>,
     <<"U+04DD", <<"U+04DC">>>>, <<"U+04DF", <<"U+04DE">>>>, <<"U+04E1", <<"U+04E0">>>>,
     <<"U+04E3", <<"U+04E2">>>>, <<"U+04E5", <<"U+04E4">>>>, <<"U+04E7", <<"U+04E6">>>>,
     <<"U+04E9", <<"U+04E8">>>>, <<"U+04EB", <<"U+04EA">>>>, <<"U+04ED", <<"U+04EC">>>>,
     <<"U+04EF", <<"U+04EE">>>>, <<"U+04F1", <<"U+04F0">>>>, <<"U+04F3", <<"U+04F2">>>>,
     <<"U+04F5", <<"U+04F4">>>>, <<"U+04F7", <<"U+04F6">>>>, <<"U+04F9", <<"U+04F8">>>>,
     <<"U+04FB", <<"U+04FA">>>>, <<"U+04FD", <<"U+04FC">>>>, <<"U+04FF", <<"U+04FE">>>>,
     <<"U+0501", <<"U+0500">>>>, <<"U+0503", <<"U+0502">>>>, <<"U+0505", <<"U+0504">>>>,
     <<"U+0507", <<"U+0506">>>>, <<"U+0509", <<"U+0508">>>>, <<"U+050B", <<"U+050A">>>>,
     <<"U+050D", <<"U+050C">>>>, <<"U+050F", <<"U+050E">>>>, <<"U+0511", <<"U+0510">>>>,
     <<"U+0513", <<"U+0512">>>>, <<"U+0515", <<"U+0514">>>>, <<"U+0517", <<"U+0516">>>>,
     <<"U+0519", <<"U+0518">>>>, <<"U+051B", <<"U+051A">>>>, <<"U+051D", <<"U+051C">>>>,
     <<"U+051F", <<"U+051E">>>>, <<"U+0521", <<"U+0520">>>>, <<"U+0523", <<"U+0522">>>>,
     <<"U+0525", <<"U+0524">>>>, <<"U+0527", <<"U+0526">>>>, <<"U+0529", <<"U+0528">>>>,
     <<"U+052B", <<"U+052A">>>>, <<"U+052D", <<"U+052C">>>>, <<"U+052F", <<"U+052E">>>>,
     <<"U+0561", <<"U+0531">>>>, <<"U+0562", <<"U+0532">>>>, <<"U+0563", <<"U+0533">>>>,
     <<"U+0564", <<"U+0534">>>>, <<"U+0565", <<"U+0535">>>>, <<"U+0566", <<"U+0536">>>>,
     <<"U+0567", <<"U+0537">>>>, <<"U+0568", <<"U+0538">>>>, <<"U+0569", <<"U+0539">>>>,
     <<"U+056A", <<"U+053A">>>>, <<"U+056B", <<"U+053B">>>>, <<"U+056C", <<"U+053C">>>>,
     <<"U+056D", <<"U+053D">>>>, <<"U+056E", <<"U+053E">>>>, <<"U+056F", <<"U+053F">>>>,
     <<"U+0570", <<"U+0540">>>>, <<"U+0571", <<"U+0541">>>>, <<"U+0572", <<"U+0542">>>>,
     <<"U+0573", <<"U+0543">>>>, <<"U+0574", <<"U+0544">>>>, <<"U+0575", <<"U+0545">>>>,
     <<"U+0576", <<"U+0546">>>>, <<"U+0577", <<"U+0547">>>>, <<"U+0578", <<"U+0548">>>>,
     <<"U+0579", <<"U+0549">>>>, <<"U+057A", <<"U+054A">>>>, <<"U+057B", <<"U+054B">>>>,
     <<"U+057C", <<"U+054C">>>>, <<"U+057D", <<"U+054D">>>>, <<"U+057E", <<"U+054E">>>>,
     <<"U+057F", <<"U+054F">>>>, <<"U+0580", <<"U+0550">>>>, <<"U+0581", <<"U+0551">>>>,
     <<"U+0582", <<"U+0552">>>>, <<"U+0583", <<"U+0553">>>>, <<"U+0584", <<"U+0554">>>>,
     <<"U+0585", <<"U+0555">>>>, <<"U+0586", <<"U+0556">>>>, <<"U+0587", <<"U+0535", "U+0552">>>>,
     <<"U+10D0", <<"U+1C90">>>>, <<"U+10D1", <<"U+1C91">>>>, <<"U+10D2", <<"U+1C92">>>>,
     <<"U+10D3", <<"U+1C93">>>>, <<"U+10D4", <<"U+1C94">>>>, <<"U+10D5", <<"U+1C95">>>>,
     <<"U+10D6", <<"U+1C96">>>>, <<"U+10D7", <<"U+1C97">>>>, <<"U+10D8", <<"U+1C98">>>>,
     <<"U+10D9", <<"U+1C99">>>>, <<"U+10DA", <<"U+1C9A">>>>, <<"U+10DB", <<"U+1C9B">>>>,
     <<"U+10DC", <<"U+1C9C">>>>, <<"U+10DD", <<"U+1C9D">>>>, <<"U+10DE", <<"U+1C9E">>>>,
     <<"U+10DF", <<"U+1C9F">>>>, <<"U+10E0", <<"U+1CA0">>>>, <<"U+10E1", <<"U+1CA1">>>>,
     <<"U+10E2", <<"U+1CA2">>>>, <<"U+10E3", <<"U+1CA3">>>>, <<"U+10E4", <<"U+1CA4">>>>,
     <<"U+10E5", <<"U+1CA5">>>>, <<"U+10E6", <<"U+1CA6">>>>, <<"U+10E7", <<"U+1CA7">>>>,
     <<"U+10E8", <<"U+1CA8">>>>, <<"U+10E9", <<"U+1CA9">>>>, <<"U+10EA", <<"U+1CAA">>>>,
     <<"U+10EB", <<"U+1CAB">>>>, <<"U+10EC", <<"U+1CAC">>>>, <<"U+10ED", <<"U+1CAD">>>>,
     <<"U+10EE", <<"U+1CAE">>>>, <<"U+10EF", <<"U+1CAF">>>>, <<"U+10F0", <<"U+1CB0">>>>,
     <<"U+10F1", <<"U+1CB1">>>>, <<"U+10F2", <<"U+1CB2">>>>, <<"U+10F3", <<"U+1CB3">>>>,
     <<"U+10F4", <<"U+1CB4">>>>, <<"U+10F5", <<"U+1CB5">>>>, <<"U+10F6", <<"U+1CB6">>>>,
     <<"U+10F7", <<"U+1CB7">>>>, <<"U+10F8", <<"U+1CB8">>>>, <<"U+10F9", <<"U+1CB9">>>>,
     <<"U+10FA", <<"U+1CBA">>>>, <<"U+10FD", <<"U+1CBD">>>>, <<"U+10FE", <<"U+1CBE">>>>,
     <<"U+10FF", <<"U+1CBF">>>>, <<"U+13F8", <<"U+13F0">>>>, <<"U+13F9", <<"U+13F1">>>>,
     <<"U+13FA", <<"U+13F2">>>>, <<"U+13FB", <<"U+13F3">>>>, <<"U+13FC", <<"U+13F4">>>>,
     <<"U+13FD", <<"U+13F5">>>>, <<"U+1C80", <<"U+0412">>>>, <<"U+1C81", <<"U+0414">>>>,
     <<"U+1C82", <<"U+041E">>>>, <<"U+1C83", <<"U+0421">>>>, <<"U+1C84", <<"U+0422">>>>,
     <<"U+1C85", <<"U+0422">>>>, <<"U+1C86", <<"U+042A">>>>, <<"U+1C87", <<"U+0462">>>>,
     <<"U+1C88", <<"U+A64A">>>>, <<"U+1D79", <<"U+A77D">>>>, <<"U+1D7D", <<"U+2C63">>>>,
     <<"U+1D8E", <<"U+A7C6">>>>, <<"U+1E01", <<"U+1E00">>>>, <<"U+1E03", <<"U+1E02">>>>,
     <<"U+1E05", <<"U+1E04">>>>, <<"U+1E07", <<"U+1E06">>>>, <<"U+1E09", <<"U+1E08">>>>,
     <<"U+1E0B", <<"U+1E0A">>>>, <<"U+1E0D", <<"U+1E0C">>>>, <<"U+1E0F", <<"U+1E0E">>>>,
     <<"U+1E11", <<"U+1E10">>>>, <<"U+1E13", <<"U+1E12">>>>, <<"U+1E15", <<"U+1E14">>>>,
     <<"U+1E17", <<"U+1E16">>>>, <<"U+1E19", <<"U+1E18">>>>, <<"U+1E1B", <<"U+1E1A">>>>,
     <<"U+1E1D", <<"U+1E1C">>>>, <<"U+1E1F", <<"U+1E1E">>>>, <<"U+1E21", <<"U+1E20">>>>,
     <<"U+1E23", <<"U+1E22">>>>, <<"U+1E25", <<"U+1E24">>>>, <<"U+1E27", <<"U+1E26">>>>,
     <<"U+1E29", <<"U+1E28">>>>, <<"U+1E2B", <<"U+1E2A">>>>, <<"U+1E2D", <<"U+1E2C">>>>,
     <<"U+1E2F", <<"U+1E2E">>>>, <<"U+1E31", <<"U+1E30">>>>, <<"U+1E33", <<"U+1E32">>>>,
     <<"U+1E35", <<"U+1E34">>>>, <<"U+1E37", <<"U+1E36">>>>, <<"U+1E39", <<"U+1E38">>>>,
     <<"U+1E3B", <<"U+1E3A">>>>, <<"U+1E3D", <<"U+1E3C">>>>, <<"U+1E3F", <<"U+1E3E">>>>,
     <<"U+1E41", <<"U+1E40">>>>, <<"U+1E43", <<"U+1E42">>>>, <<"U+1E45", <<"U+1E44">>>>,
     <<"U+1E47", <<"U+1E46">>>>, <<"U+1E49", <<"U+1E48">>>>, <<"U+1E4B", <<"U+1E4A">>>>,
     <<"U+1E4D", <<"U+1E4C">>>>, <<"U+1E4F", <<"U+1E4E">>>>, <<"U+1E51", <<"U+1E50">>>>,
     <<"U+1E53", <<"U+1E52">>>>, <<"U+1E55", <<"U+1E54">>>>, <<"U+1E57", <<"U+1E56">>>>,
     <<"U+1E59", <<"U+1E58">>>>, <<"U+1E5B", <<"U+1E5A">>>>, <<"U+1E5D", <<"U+1E5C">>>>,
     <<"U+1E5F", <<"U+1E5E">>>>, <<"U+1E61", <<"U+1E60">>>>, <<"U+1E63", <<"U+1E62">>>>,
     <<"U+1E65", <<"U+1E64">>>>, <<"U+1E67", <<"U+1E66">>>>, <<"U+1E69", <<"U+1E68">>>>,
     <<"U+1E6B", <<"U+1E6A">>>>, <<"U+1E6D", <<"U+1E6C">>>>, <<"U+1E6F", <<"U+1E6E">>>>,
     <<"U+1E71", <<"U+1E70">>>>, <<"U+1E73", <<"U+1E72">>>>, <<"U+1E75", <<"U+1E74">>>>,
     <<"U+1E77", <<"U+1E76">>>>, <<"U+1E79", <<"U+1E78">>>>, <<"U+1E7B", <<"U+1E7A">>>>,
     <<"U+1E7D", <<"U+1E7C">>>>, <<"U+1E7F", <<"U+1E7E">>>>, <<"U+1E81", <<"U+1E80">>>>,
     <<"U+1E83", <<"U+1E82">>>>, <<"U+1E85", <<"U+1E84">>>>, <<"U+1E87", <<"U+1E86">>>>,
     <<"U+1E89", <<"U+1E88">>>>, <<"U+1E8B", <<"U+1E8A">>>>, <<"U+1E8D", <<"U+1E8C">>>>,
     <<"U+1E8F", <<"U+1E8E">>>>, <<"U+1E91", <<"U+1E90">>>>, <<"U+1E93", <<"U+1E92">>>>,
     <<"U+1E95", <<"U+1E94">>>>, <<"U+1E96", <<"H", "U+0331">>>>, <<"U+1E97", <<"T", "U+0308">>>>,
     <<"U+1E98", <<"W", "U+030A">>>>, <<"U+1E99", <<"Y", "U+030A">>>>,
     <<"U+1E9A", <<"A", "U+02BE">>>>, <<"U+1E9B", <<"U+1E60">>>>, <<"U+1EA1", <<"U+1EA0">>>>,
     <<"U+1EA3", <<"U+1EA2">>>>, <<"U+1EA5", <<"U+1EA4">>>>, <<"U+1EA7", <<"U+1EA6">>>>,
     <<"U+1EA9", <<"U+1EA8">>>>, <<"U+1EAB", <<"U+1EAA">>>>, <<"U+1EAD", <<"U+1EAC">>>>,
     <<"U+1EAF", <<"U+1EAE">>>>, <<"U+1EB1", <<"U+1EB0">>>>, <<"U+1EB3", <<"U+1EB2">>>>,
     <<"U+1EB5", <<"U+1EB4">>>>, <<"U+1EB7", <<"U+1EB6">>>>, <<"U+1EB9", <<"U+1EB8">>>>,
     <<"U+1EBB", <<"U+1EBA">>>>, <<"U+1EBD", <<"U+1EBC">>>>, <<"U+1EBF", <<"U+1EBE">>>>,
     <<"U+1EC1", <<"U+1EC0">>>>, <<"U+1EC3", <<"U+1EC2">>>>, <<"U+1EC5", <<"U+1EC4">>>>,
     <<"U+1EC7", <<"U+1EC6">>>>, <<"U+1EC9", <<"U+1EC8">>>>, <<"U+1ECB", <<"U+1ECA">>>>,
     <<"U+1ECD", <<"U+1ECC">>>>, <<"U+1ECF", <<"U+1ECE">>>>, <<"U+1ED1", <<"U+1ED0">>>>,
     <<"U+1ED3", <<"U+1ED2">>>>, <<"U+1ED5", <<"U+1ED4">>>>, <<"U+1ED7", <<"U+1ED6">>>>,
     <<"U+1ED9", <<"U+1ED8">>>>, <<"U+1EDB", <<"U+1EDA">>>>, <<"U+1EDD", <<"U+1EDC">>>>,
     <<"U+1EDF", <<"U+1EDE">>>>, <<"U+1EE1", <<"U+1EE0">>>>, <<"U+1EE3", <<"U+1EE2">>>>,
     <<"U+1EE5", <<"U+1EE4">>>>, <<"U+1EE7", <<"U+1EE6">>>>, <<"U+1EE9", <<"U+1EE8">>>>,
     <<"U+1EEB", <<"U+1EEA">>>>, <<"U+1EED", <<"U+1EEC">>>>, <<"U+1EEF", <<"U+1EEE">>>>,
     <<"U+1EF1", <<"U+1EF0">>>>, <<"U+1EF3", <<"U+1EF2">>>>, <<"U+1EF5", <<"U+1EF4">>>>,
     <<"U+1EF7", <<"U+1EF6">>>>, <<"U+1EF9", <<"U+1EF8">>>>, <<"U+1EFB", <<"U+1EFA">>>>,
     <<"U+1EFD", <<"U+1EFC">>>>, <<"U+1EFF", <<"U+1EFE">>>>, <<"U+1F00", <<"U+1F08">>>>,
     <<"U+1F01", <<"U+1F09">>>>, <<"U+1F02", <<"U+1F0A">>>>, <<"U+1F03", <<"U+1F0B">>>>,
     <<"U+1F04", <<"U+1F0C">>>>, <<"U+1F05", <<"U+1F0D">>>>, <<"U+1F06", <<"U+1F0E">>>>,
     <<"U+1F07", <<"U+1F0F">>>>, <<"U+1F10", <<"U+1F18">>>>, <<"U+1F11", <<"U+1F19">>>>,
     <<"U+1F12", <<"U+1F1A">>>>, <<"U+1F13", <<"U+1F1B">>>>, <<"U+1F14", <<"U+1F1C">>>>,
     <<"U+1F15", <<"U+1F1D">>>>, <<"U+1F20", <<"U+1F28">>>>, <<"U+1F21", <<"U+1F29">>>>,
     <<"U+1F22", <<"U+1F2A">>>>, <<"U+1F23", <<"U+1F2B">>>>, <<"U+1F24", <<"U+1F2C">>>>,
     <<"U+1F25", <<"U+1F2D">>>>, <<"U+1F26", <<"U+1F2E">>>>, <<"U+1F27", <<"U+1F2F">>>>,
     <<"U+1F30", <<"U+1F38">>>>, <<"U+1F31", <<"U+1F39">>>>, <<"U+1F32", <<"U+1F3A">>>>,
     <<"U+1F33", <<"U+1F3B">>>>, <<"U+1F34", <<"U+1F3C">>>>, <<"U+1F35", <<"U+1F3D">>>>,
     <<"U+1F36", <<"U+1F3E">>>>, <<"U+1F37", <<"U+1F3F">>>>, <<"U+1F40", <<"U+1F48">>>>,
     <<"U+1F41", <<"U+1F49">>>>, <<"U+1F42", <<"U+1F4A">>>>, <<"U+1F43", <<"U+1F4B">>>>,
     <<"U+1F44", <<"U+1F4C">>>>, <<"U+1F45", <<"U+1F4D">>>>, <<"U+1F50", <<"U+03A5", "U+0313">>>>,
     <<"U+1F51", <<"U+1F59">>>>, <<"U+1F52", <<"U+03A5", "U+0313", "U+0300">>>>,
     <<"U+1F53", <<"U+1F5B">>>>, <<"U+1F54", <<"U+03A5", "U+0313", "U+0301">>>>,
     <<"U+1F55", <<"U+1F5D">>>>, <<"U+1F56", <<"U+03A5", "U+0313", "U+0342">>>>,
     <<"U+1F57", <<"U+1F5F">>>>, <<"U+1F60", <<"U+1F68">>>>, <<"U+1F61", <<"U+1F69">>>>,
     <<"U+1F62", <<"U+1F6A">>>>, <<"U+1F63", <<"U+1F6B">>>>, <<"U+1F64", <<"U+1F6C">>>>,
     <<"U+1F65", <<"U+1F6D">>>>, <<"U+1F66", <<"U+1F6E">>>>, <<"U+1F67", <<"U+1F6F">>>>,
     <<"U+1F70", <<"U+1FBA">>>>, <<"U+1F71", <<"U+1FBB">>>>, <<"U+1F72", <<"U+1FC8">>>>,
     <<"U+1F73", <<"U+1FC9">>>>, <<"U+1F74", <<"U+1FCA">>>>, <<"U+1F75", <<"U+1FCB">>>>,
     <<"U+1F76", <<"U+1FDA">>>>, <<"U+1F77", <<"U+1FDB">>>>, <<"U+1F78", <<"U+1FF8">>>>,
     <<"U+1F79", <<"U+1FF9">>>>, <<"U+1F7A", <<"U+1FEA">>>>, <<"U+1F7B", <<"U+1FEB">>>>,
     <<"U+1F7C", <<"U+1FFA">>>>, <<"U+1F7D", <<"U+1FFB">>>>, <<"U+1F80", <<"U+1F08", "U+0399">>>>,
     <<"U+1F81", <<"U+1F09", "U+0399">>>>, <<"U+1F82", <<"U+1F0A", "U+0399">>>>,
     <<"U+1F83", <<"U+1F0B", "U+0399">>>>, <<"U+1F84", <<"U+1F0C", "U+0399">>>>,
     <<"U+1F85", <<"U+1F0D", "U+0399">>>>, <<"U+1F86", <<"U+1F0E", "U+0399">>>>,
     <<"U+1F87", <<"U+1F0F", "U+0399">>>>, <<"U+1F88", <<"U+1F08", "U+0399">>>>,
     <<"U+1F89", <<"U+1F09", "U+0399">>>>, <<"U+1F8A", <<"U+1F0A", "U+0399">>>>,
     <<"U+1F8B", <<"U+1F0B", "U+0399">>>>, <<"U+1F8C", <<"U+1F0C", "U+0399">>>>,
     <<"U+1F8D", <<"U+1F0D", "U+0399">>>>, <<"U+1F8E", <<"U+1F0E", "U+0399">>>>,
     <<"U+1F8F", <<"U+1F0F", "U+0399">>>>, <<"U+1F90", <<"U+1F28", "U+0399">>>>,
     <<"U+1F91", <<"U+1F29", "U+0399">>>>, <<"U+1F92", <<"U+1F2A", "U+0399">>>>,
     <<"U+1F93", <<"U+1F2B", "U+0399">>>>, <<"U+1F94", <<"U+1F2C", "U+0399">>>>,
     <<"U+1F95", <<"U+1F2D", "U+0399">>>>, <<"U+1F96", <<"U+1F2E", "U+0399">>>>,
     <<"U+1F97", <<"U+1F2F", "U+0399">>>>, <<"U+1F98", <<"U+1F28", "U+0399">>>>,
     <<"U+1F99", <<"U+1F29", "U+0399">>>>, <<"U+1F9A", <<"U+1F2A", "U+0399">>>>,
     <<"U+1F9B", <<"U+1F2B", "U+0399">>>>, <<"U+1F9C", <<"U+1F2C", "U+0399">>>>,
     <<"U+1F9D", <<"U+1F2D", "U+0399">>>>, <<"U+1F9E", <<"U+1F2E", "U+0399">>>>,
     <<"U+1F9F", <<"U+1F2F", "U+0399">>>>, <<"U+1FA0", <<"U+1F68", "U+0399">>>>,
     <<"U+1FA1", <<"U+1F69", "U+0399">>>>, <<"U+1FA2", <<"U+1F6A", "U+0399">>>>,
     <<"U+1FA3", <<"U+1F6B", "U+0399">>>>, <<"U+1FA4", <<"U+1F6C", "U+0399">>>>,
     <<"U+1FA5", <<"U+1F6D", "U+0399">>>>, <<"U+1FA6", <<"U+1F6E", "U+0399">>>>,
     <<"U+1FA7", <<"U+1F6F", "U+0399">>>>, <<"U+1FA8", <<"U+1F68", "U+0399">>>>,
     <<"U+1FA9", <<"U+1F69", "U+0399">>>>, <<"U+1FAA", <<"U+1F6A", "U+0399">>>>,
     <<"U+1FAB", <<"U+1F6B", "U+0399">>>>, <<"U+1FAC", <<"U+1F6C", "U+0399">>>>,
     <<"U+1FAD", <<"U+1F6D", "U+0399">>>>, <<"U+1FAE", <<"U+1F6E", "U+0399">>>>,
     <<"U+1FAF", <<"U+1F6F", "U+0399">>>>, <<"U+1FB0", <<"U+1FB8">>>>, <<"U+1FB1", <<"U+1FB9">>>>,
     <<"U+1FB2", <<"U+1FBA", "U+0399">>>>, <<"U+1FB3", <<"U+0391", "U+0399">>>>,
     <<"U+1FB4", <<"U+0386", "U+0399">>>>, <<"U+1FB6", <<"U+0391", "U+0342">>>>,
     <<"U+1FB7", <<"U+0391", "U+0342", "U+0399">>>>, <<"U+1FBC", <<"U+0391", "U+0399">>>>,
     <<"U+1FBE", <<"U+0399">>>>, <<"U+1FC2", <<"U+1FCA", "U+0399">>>>,
     <<"U+1FC3", <<"U+0397", "U+0399">>>>, <<"U+1FC4", <<"U+0389", "U+0399">>>>,
     <<"U+1FC6", <<"U+0397", "U+0342">>>>, <<"U+1FC7", <<"U+0397", "U+0342", "U+0399">>>>,
     <<"U+1FCC", <<"U+0397", "U+0399">>>>, <<"U+1FD0", <<"U+1FD8">>>>, <<"U+1FD1", <<"U+1FD9">>>>,
     <<"U+1FD2", <<"U+0399", "U+0308", "U+0300">>>>, <<"U+1FD3", <<"U+0399", "U+0308", "U+0301">>>>,
     <<"U+1FD6", <<"U+0399", "U+0342">>>>, <<"U+1FD7", <<"U+0399", "U+0308", "U+0342">>>>,
     <<"U+1FE0", <<"U+1FE8">>>>, <<"U+1FE1", <<"U+1FE9">>>>,
     <<"U+1FE2", <<"U+03A5", "U+0308", "U+0300">>>>, <<"U+1FE3", <<"U+03A5", "U+0308", "U+0301">>>>,
     <<"U+1FE4", <<"U+03A1", "U+0313">>>>, <<"U+1FE5", <<"U+1FEC">>>>,
     <<"U+1FE6", <<"U+03A5", "U+0342">>>>, <<"U+1FE7", <<"U+03A5", "U+0308", "U+0342">>>>,
     <<"U+1FF2", <<"U+1FFA", "U+0399">>>>, <<"U+1FF3", <<"U+03A9", "U+0399">>>>,
     <<"U+1FF4", <<"U+038F", "U+0399">>>>, <<"U+1FF6", <<"U+03A9", "U+0342">>>>,
     <<"U+1FF7", <<"U+03A9", "U+0342", "U+0399">>>>, <<"U+1FFC", <<"U+03A9", "U+0399">>>>,
     <<"U+214E", <<"U+2132">>>>, <<"U+2170", <<"U+2160">>>>, <<"U+2171", <<"U+2161">>>>,
     <<"U+2172", <<"U+2162">>>>, <<"U+2173", <<"U+2163">>>>, <<"U+2174", <<"U+2164">>>>,
     <<"U+2175", <<"U+2165">>>>, <<"U+2176", <<"U+2166">>>>, <<"U+2177", <<"U+2167">>>>,
     <<"U+2178", <<"U+2168">>>>, <<"U+2179", <<"U+2169">>>>, <<"U+217A", <<"U+216A">>>>,
     <<"U+217B", <<"U+216B">>>>, <<"U+217C", <<"U+216C">>>>, <<"U+217D", <<"U+216D">>>>,
     <<"U+217E", <<"U+216E">>>>, <<"U+217F", <<"U+216F">>>>, <<"U+2184", <<"U+2183">>>>,
     <<"U+24D0", <<"U+24B6">>>>, <<"U+24D1", <<"U+24B7">>>>, <<"U+24D2", <<"U+24B8">>>>,
     <<"U+24D3", <<"U+24B9">>>>, <<"U+24D4", <<"U+24BA">>>>, <<"U+24D5", <<"U+24BB">>>>,
     <<"U+24D6", <<"U+24BC">>>>, <<"U+24D7", <<"U+24BD">>>>, <<"U+24D8", <<"U+24BE">>>>,
     <<"U+24D9", <<"U+24BF">>>>, <<"U+24DA", <<"U+24C0">>>>, <<"U+24DB", <<"U+24C1">>>>,
     <<"U+24DC", <<"U+24C2">>>>, <<"U+24DD", <<"U+24C3">>>>, <<"U+24DE", <<"U+24C4">>>>,
     <<"U+24DF", <<"U+24C5">>>>, <<"U+24E0", <<"U+24C6">>>>, <<"U+24E1", <<"U+24C7">>>>,
     <<"U+24E2", <<"U+24C8">>>>, <<"U+24E3", <<"U+24C9">>>>, <<"U+24E4", <<"U+24CA">>>>,
     <<"U+24E5", <<"U+24CB">>>>, <<"U+24E6", <<"U+24CC">>>>, <<"U+24E7", <<"U+24CD">>>>,
     <<"U+24E8", <<"U+24CE">>>>, <<"U+24E9", <<"U+24CF">>>>, <<"U+2C30", <<"U+2C00">>>>,
     <<"U+2C31", <<"U+2C01">>>>, <<"U+2C32", <<"U+2C02">>>>, <<"U+2C33", <<"U+2C03">>>>,
     <<"U+2C34", <<"U+2C04">>>>, <<"U+2C35", <<"U+2C05">>>>, <<"U+2C36", <<"U+2C06">>>>,
     <<"U+2C37", <<"U+2C07">>>>, <<"U+2C38", <<"U+2C08">>>>, <<"U+2C39", <<"U+2C09">>>>,
     <<"U+2C3A", <<"U+2C0A">>>>, <<"U+2C3B", <<"U+2C0B">>>>, <<"U+2C3C", <<"U+2C0C">>>>,
     <<"U+2C3D", <<"U+2C0D">>>>, <<"U+2C3E", <<"U+2C0E">>>>, <<"U+2C3F", <<"U+2C0F">>>>,
     <<"U+2C40", <<"U+2C10">>>>, <<"U+2C41", <<"U+2C11">>>>, <<"U+2C42", <<"U+2C12">>>>,
     <<"U+2C43", <<"U+2C13">>>>, <<"U+2C44", <<"U+2C14">>>>, <<"U+2C45", <<"U+2C15">>>>,
     <<"U+2C46", <<"U+2C16">>>>, <<"U+2C47", <<"U+2C17">>>>, <<"U+2C48", <<"U+2C18">>>>,
     <<"U+2C49", <<"U+2C19">>>>, <<"U+2C4A", <<"U+2C1A">>>>, <<"U+2C4B", <<"U+2C1B">>>>,
     <<"U+2C4C", <<"U+2C1C">>>>, <<"U+2C4D", <<"U+2C1D">>>>, <<"U+2C4E", <<"U+2C1E">>>>,
     <<"U+2C4F", <<"U+2C1F">>>>, <<"U+2C50", <<"U+2C20">>>>, <<"U+2C51", <<"U+2C21">>>>,
     <<"U+2C52", <<"U+2C22">>>>, <<"U+2C53", <<"U+2C23">>>>, <<"U+2C54", <<"U+2C24">>>>,
     <<"U+2C55", <<"U+2C25">>>>, <<"U+2C56", <<"U+2C26">>>>, <<"U+2C57", <<"U+2C27">>>>,
     <<"U+2C58", <<"U+2C28">>>>, <<"U+2C59", <<"U+2C29">>>>, <<"U+2C5A", <<"U+2C2A">>>>,
     <<"U+2C5B", <<"U+2C2B">>>>, <<"U+2C5C", <<"U+2C2C">>>>, <<"U+2C5D", <<"U+2C2D">>>>,
     <<"U+2C5E", <<"U+2C2E">>>>, <<"U+2C5F", <<"U+2C2F">>>>, <<"U+2C61", <<"U+2C60">>>>,
     <<"U+2C65", <<"U+023A">>>>, <<"U+2C66", <<"U+023E">>>>, <<"U+2C68", <<"U+2C67">>>>,
     <<"U+2C6A", <<"U+2C69">>>>, <<"U+2C6C", <<"U+2C6B">>>>, <<"U+2C73", <<"U+2C72">>>>,
     <<"U+2C76", <<"U+2C75">>>>, <<"U+2C81", <<"U+2C80">>>>, <<"U+2C83", <<"U+2C82">>>>,
     <<"U+2C85", <<"U+2C84">>>>, <<"U+2C87", <<"U+2C86">>>>, <<"U+2C89", <<"U+2C88">>>>,
     <<"U+2C8B", <<"U+2C8A">>>>, <<"U+2C8D", <<"U+2C8C">>>>, <<"U+2C8F", <<"U+2C8E">>>>,
     <<"U+2C91", <<"U+2C90">>>>, <<"U+2C93", <<"U+2C92">>>>, <<"U+2C95", <<"U+2C94">>>>,
     <<"U+2C97", <<"U+2C96">>>>, <<"U+2C99", <<"U+2C98">>>>, <<"U+2C9B", <<"U+2C9A">>>>,
     <<"U+2C9D", <<"U+2C9C">>>>, <<"U+2C9F", <<"U+2C9E">>>>, <<"U+2CA1", <<"U+2CA0">>>>,
     <<"U+2CA3", <<"U+2CA2">>>>, <<"U+2CA5", <<"U+2CA4">>>>, <<"U+2CA7", <<"U+2CA6">>>>,
     <<"U+2CA9", <<"U+2CA8">>>>, <<"U+2CAB", <<"U+2CAA">>>>, <<"U+2CAD", <<"U+2CAC">>>>,
     <<"U+2CAF", <<"U+2CAE">>>>, <<"U+2CB1", <<"U+2CB0">>>>, <<"U+2CB3", <<"U+2CB2">>>>,
     <<"U+2CB5", <<"U+2CB4">>>>, <<"U+2CB7", <<"U+2CB6">>>>, <<"U+2CB9", <<"U+2CB8">>>>,
     <<"U+2CBB", <<"U+2CBA">>>>, <<"U+2CBD", <<"U+2CBC">>>>, <<"U+2CBF", <<"U+2CBE">>>>,
     <<"U+2CC1", <<"U+2CC0">>>>, <<"U+2CC3", <<"U+2CC2">>>>, <<"U+2CC5", <<"U+2CC4">>>>,
     <<"U+2CC7", <<"U+2CC6">>>>, <<"U+2CC9", <<"U+2CC8">>>>, <<"U+2CCB", <<"U+2CCA">>>>,
     <<"U+2CCD", <<"U+2CCC">>>>, <<"U+2CCF", <<"U+2CCE">>>>, <<"U+2CD1", <<"U+2CD0">>>>,
     <<"U+2CD3", <<"U+2CD2">>>>, <<"U+2CD5", <<"U+2CD4">>>>, <<"U+2CD7", <<"U+2CD6">>>>,
     <<"U+2CD9", <<"U+2CD8">>>>, <<"U+2CDB", <<"U+2CDA">>>>, <<"U+2CDD", <<"U+2CDC">>>>,
     <<"U+2CDF", <<"U+2CDE">>>>, <<"U+2CE1", <<"U+2CE0">>>>, <<"U+2CE3", <<"U+2CE2">>>>,
     <<"U+2CEC", <<"U+2CEB">>>>, <<"U+2CEE", <<"U+2CED">>>>, <<"U+2CF3", <<"U+2CF2">>>>,
     <<"U+2D00", <<"U+10A0">>>>, <<"U+2D01", <<"U+10A1">>>>, <<"U+2D02", <<"U+10A2">>>>,
     <<"U+2D03", <<"U+10A3">>>>, <<"U+2D04", <<"U+10A4">>>>, <<"U+2D05", <<"U+10A5">>>>,
     <<"U+2D06", <<"U+10A6">>>>, <<"U+2D07", <<"U+10A7">>>>, <<"U+2D08", <<"U+10A8">>>>,
     <<"U+2D09", <<"U+10A9">>>>, <<"U+2D0A", <<"U+10AA">>>>, <<"U+2D0B", <<"U+10AB">>>>,
     <<"U+2D0C", <<"U+10AC">>>>, <<"U+2D0D", <<"U+10AD">>>>, <<"U+2D0E", <<"U+10AE">>>>,
     <<"U+2D0F", <<"U+10AF">>>>, <<"U+2D10", <<"U+10B0">>>>, <<"U+2D11", <<"U+10B1">>>>,
     <<"U+2D12", <<"U+10B2">>>>, <<"U+2D13", <<"U+10B3">>>>, <<"U+2D14", <<"U+10B4">>>>,
     <<"U+2D15", <<"U+10B5">>>>, <<"U+2D16", <<"U+10B6">>>>, <<"U+2D17", <<"U+10B7">>>>,
     <<"U+2D18", <<"U+10B8">>>>, <<"U+2D19", <<"U+10B9">>>>, <<"U+2D1A", <<"U+10BA">>>>,
     <<"U+2D1B", <<"U+10BB">>>>, <<"U+2D1C", <<"U+10BC">>>>, <<"U+2D1D", <<"U+10BD">>>>,
     <<"U+2D1E", <<"U+10BE">>>>, <<"U+2D1F", <<"U+10BF">>>>, <<"U+2D20", <<"U+10C0">>>>,
     <<"U+2D21", <<"U+10C1">>>>, <<"U+2D22", <<"U+10C2">>>>, <<"U+2D23", <<"U+10C3">>>>,
     <<"U+2D24", <<"U+10C4">>>>, <<"U+2D25", <<"U+10C5">>>>, <<"U+2D27", <<"U+10C7">>>>,
     <<"U+2D2D", <<"U+10CD">>>>, <<"U+A641", <<"U+A640">>>>, <<"U+A643", <<"U+A642">>>>,
     <<"U+A645", <<"U+A644">>>>, <<"U+A647", <<"U+A646">>>>, <<"U+A649", <<"U+A648">>>>,
     <<"U+A64B", <<"U+A64A">>>>, <<"U+A64D", <<"U+A64C">>>>, <<"U+A64F", <<"U+A64E">>>>,
     <<"U+A651", <<"U+A650">>>>, <<"U+A653", <<"U+A652">>>>, <<"U+A655", <<"U+A654">>>>,
     <<"U+A657", <<"U+A656">>>>, <<"U+A659", <<"U+A658">>>>, <<"U+A65B", <<"U+A65A">>>>,
     <<"U+A65D", <<"U+A65C">>>>, <<"U+A65F", <<"U+A65E">>>>, <<"U+A661", <<"U+A660">>>>,
     <<"U+A663", <<"U+A662">>>>, <<"U+A665", <<"U+A664">>>>, <<"U+A667", <<"U+A666">>>>,
     <<"U+A669", <<"U+A668">>>>, <<"U+A66B", <<"U+A66A">>>>, <<"U+A66D", <<"U+A66C">>>>,
     <<"U+A681", <<"U+A680">>>>, <<"U+A683", <<"U+A682">>>>, <<"U+A685", <<"U+A684">>>>,
     <<"U+A687", <<"U+A686">>>>, <<"U+A689", <<"U+A688">>>>, <<"U+A68B", <<"U+A68A">>>>,
     <<"U+A68D", <<"U+A68C">>>>, <<"U+A68F", <<"U+A68E">>>>, <<"U+A691", <<"U+A690">>>>,
     <<"U+A693", <<"U+A692">>>>, <<"U+A695", <<"U+A694">>>>, <<"U+A697", <<"U+A696">>>>,
     <<"U+A699", <<"U+A698">>>>, <<"U+A69B", <<"U+A69A">>>>, <<"U+A723", <<"U+A722">>>>,
     <<"U+A725", <<"U+A724">>>>, <<"U+A727", <<"U+A726">>>>, <<"U+A729", <<"U+A728">>>>,
     <<"U+A72B", <<"U+A72A">>>>, <<"U+A72D", <<"U+A72C">>>>, <<"U+A72F", <<"U+A72E">>>>,
     <<"U+A733", <<"U+A732">>>>, <<"U+A735", <<"U+A734">>>>, <<"U+A737", <<"U+A736">>>>,
     <<"U+A739", <<"U+A738">>>>, <<"U+A73B", <<"U+A73A">>>>, <<"U+A73D", <<"U+A73C">>>>,
     <<"U+A73F", <<"U+A73E">>>>, <<"U+A741", <<"U+A740">>>>, <<"U+A743", <<"U+A742">>>>,
     <<"U+A745", <<"U+A744">>>>, <<"U+A747", <<"U+A746">>>>, <<"U+A749", <<"U+A748">>>>,
     <<"U+A74B", <<"U+A74A">>>>, <<"U+A74D", <<"U+A74C">>>>, <<"U+A74F", <<"U+A74E">>>>,
     <<"U+A751", <<"U+A750">>>>, <<"U+A753", <<"U+A752">>>>, <<"U+A755", <<"U+A754">>>>,
     <<"U+A757", <<"U+A756">>>>, <<"U+A759", <<"U+A758">>>>, <<"U+A75B", <<"U+A75A">>>>,
     <<"U+A75D", <<"U+A75C">>>>, <<"U+A75F", <<"U+A75E">>>>, <<"U+A761", <<"U+A760">>>>,
     <<"U+A763", <<"U+A762">>>>, <<"U+A765", <<"U+A764">>>>, <<"U+A767", <<"U+A766">>>>,
     <<"U+A769", <<"U+A768">>>>, <<"U+A76B", <<"U+A76A">>>>, <<"U+A76D", <<"U+A76C">>>>,
     <<"U+A76F", <<"U+A76E">>>>, <<"U+A77A", <<"U+A779">>>>, <<"U+A77C", <<"U+A77B">>>>,
     <<"U+A77F", <<"U+A77E">>>>, <<"U+A781", <<"U+A780">>>>, <<"U+A783", <<"U+A782">>>>,
     <<"U+A785", <<"U+A784">>>>, <<"U+A787", <<"U+A786">>>>, <<"U+A78C", <<"U+A78B">>>>,
     <<"U+A791", <<"U+A790">>>>, <<"U+A793", <<"U+A792">>>>, <<"U+A794", <<"U+A7C4">>>>,
     <<"U+A797", <<"U+A796">>>>, <<"U+A799", <<"U+A798">>>>, <<"U+A79B", <<"U+A79A">>>>,
     <<"U+A79D", <<"U+A79C">>>>, <<"U+A79F", <<"U+A79E">>>>, <<"U+A7A1", <<"U+A7A0">>>>,
     <<"U+A7A3", <<"U+A7A2">>>>, <<"U+A7A5", <<"U+A7A4">>>>, <<"U+A7A7", <<"U+A7A6">>>>,
     <<"U+A7A9", <<"U+A7A8">>>>, <<"U+A7B5", <<"U+A7B4">>>>, <<"U+A7B7", <<"U+A7B6">>>>,
     <<"U+A7B9", <<"U+A7B8">>>>, <<"U+A7BB", <<"U+A7BA">>>>, <<"U+A7BD", <<"U+A7BC">>>>,
     <<"U+A7BF", <<"U+A7BE">>>>, <<"U+A7C1", <<"U+A7C0">>>>, <<"U+A7C3", <<"U+A7C2">>>>,
     <<"U+A7C8", <<"U+A7C7">>>>, <<"U+A7CA", <<"U+A7C9">>>>, <<"U+A7D1", <<"U+A7D0">>>>,
     <<"U+A7D7", <<"U+A7D6">>>>, <<"U+A7D9", <<"U+A7D8">>>>, <<"U+A7F6", <<"U+A7F5">>>>,
     <<"U+AB53", <<"U+A7B3">>>>, <<"U+AB70", <<"U+13A0">>>>, <<"U+AB71", <<"U+13A1">>>>,
     <<"U+AB72", <<"U+13A2">>>>, <<"U+AB73", <<"U+13A3">>>>, <<"U+AB74", <<"U+13A4">>>>,
     <<"U+AB75", <<"U+13A5">>>>, <<"U+AB76", <<"U+13A6">>>>, <<"U+AB77", <<"U+13A7">>>>,
     <<"U+AB78", <<"U+13A8">>>>, <<"U+AB79", <<"U+13A9">>>>, <<"U+AB7A", <<"U+13AA">>>>,
     <<"U+AB7B", <<"U+13AB">>>>, <<"U+AB7C", <<"U+13AC">>>>, <<"U+AB7D", <<"U+13AD">>>>,
     <<"U+AB7E", <<"U+13AE">>>>, <<"U+AB7F", <<"U+13AF">>>>, <<"U+AB80", <<"U+13B0">>>>,
     <<"U+AB81", <<"U+13B1">>>>, <<"U+AB82", <<"U+13B2">>>>, <<"U+AB83", <<"U+13B3">>>>,
     <<"U+AB84", <<"U+13B4">>>>, <<"U+AB85", <<"U+13B5">>>>, <<"U+AB86", <<"U+13B6">>>>,
     <<"U+AB87", <<"U+13B7">>>>, <<"U+AB88", <<"U+13B8">>>>, <<"U+AB89", <<"U+13B9">>>>,
     <<"U+AB8A", <<"U+13BA">>>>, <<"U+AB8B", <<"U+13BB">>>>, <<"U+AB8C", <<"U+13BC">>>>,
     <<"U+AB8D", <<"U+13BD">>>>, <<"U+AB8E", <<"U+13BE">>>>, <<"U+AB8F", <<"U+13BF">>>>,
     <<"U+AB90", <<"U+13C0">>>>, <<"U+AB91", <<"U+13C1">>>>, <<"U+AB92", <<"U+13C2">>>>,
     <<"U+AB93", <<"U+13C3">>>>, <<"U+AB94", <<"U+13C4">>>>, <<"U+AB95", <<"U+13C5">>>>,
     <<"U+AB96", <<"U+13C6">>>>, <<"U+AB97", <<"U+13C7">>>>, <<"U+AB98", <<"U+13C8">>>>,
     <<"U+AB99", <<"U+13C9">>>>, <<"U+AB9A", <<"U+13CA">>>>, <<"U+AB9B", <<"U+13CB">>>>,
     <<"U+AB9C", <<"U+13CC">>>>, <<"U+AB9D", <<"U+13CD">>>>, <<"U+AB9E", <<"U+13CE">>>>,
     <<"U+AB9F", <<"U+13CF">>>>, <<"U+ABA0", <<"U+13D0">>>>, <<"U+ABA1", <<"U+13D1">>>>,
     <<"U+ABA2", <<"U+13D2">>>>, <<"U+ABA3", <<"U+13D3">>>>, <<"U+ABA4", <<"U+13D4">>>>,
     <<"U+ABA5", <<"U+13D5">>>>, <<"U+ABA6", <<"U+13D6">>>>, <<"U+ABA7", <<"U+13D7">>>>,
     <<"U+ABA8", <<"U+13D8">>>>, <<"U+ABA9", <<"U+13D9">>>>, <<"U+ABAA", <<"U+13DA">>>>,
     <<"U+ABAB", <<"U+13DB">>>>, <<"U+ABAC", <<"U+13DC">>>>, <<"U+ABAD", <<"U+13DD">>>>,
     <<"U+ABAE", <<"U+13DE">>>>, <<"U+ABAF", <<"U+13DF">>>>, <<"U+ABB0", <<"U+13E0">>>>,
     <<"U+ABB1", <<"U+13E1">>>>, <<"U+ABB2", <<"U+13E2">>>>, <<"U+ABB3", <<"U+13E3">>>>,
     <<"U+ABB4", <<"U+13E4">>>>, <<"U+ABB5", <<"U+13E5">>>>, <<"U+ABB6", <<"U+13E6">>>>,
     <<"U+ABB7", <<"U+13E7">>>>, <<"U+ABB8", <<"U+13E8">>>>, <<"U+ABB9", <<"U+13E9">>>>,
     <<"U+ABBA", <<"U+13EA">>>>, <<"U+ABBB", <<"U+13EB">>>>, <<"U+ABBC", <<"U+13EC">>>>,
     <<"U+ABBD", <<"U+13ED">>>>, <<"U+ABBE", <<"U+13EE">>>>, <<"U+ABBF", <<"U+13EF">>>>,
     <<"U+FB00", <<"F", "F">>>>, <<"U+FB01", <<"F", "I">>>>, <<"U+FB02", <<"F", "L">>>>,
     <<"U+FB03", <<"F", "F", "I">>>>, <<"U+FB04", <<"F", "F", "L">>>>, <<"U+FB05", <<"S", "T">>>>,
     <<"U+FB06", <<"S", "T">>>>, <<"U+FB13", <<"U+0544", "U+0546">>>>,
     <<"U+FB14", <<"U+0544", "U+0535">>>>, <<"U+FB15", <<"U+0544", "U+053B">>>>,
     <<"U+FB16", <<"U+054E", "U+0546">>>>, <<"U+FB17", <<"U+0544", "U+053D">>>>,
     <<"U+FF41", <<"U+FF21">>>>, <<"U+FF42", <<"U+FF22">>>>, <<"U+FF43", <<"U+FF23">>>>,
     <<"U+FF44", <<"U+FF24">>>>, <<"U+FF45", <<"U+FF25">>>>, <<"U+FF46", <<"U+FF26">>>>,
     <<"U+FF47", <<"U+FF27">>>>, <<"U+FF48", <<"U+FF28">>>>, <<"U+FF49", <<"U+FF29">>>>,
     <<"U+FF4A", <<"U+FF2A">>>>, <<"U+FF4B", <<"U+FF2B">>>>, <<"U+FF4C", <<"U+FF2C">>>>,
     <<"U+FF4D", <<"U+FF2D">>>>, <<"U+FF4E", <<"U+FF2E">>>>, <<"U+FF4F", <<"U+FF2F">>>>,
     <<"U+FF50", <<"U+FF30">>>>, <<"U+FF51", <<"U+FF31">>>>, <<"U+FF52", <<"U+FF32">>>>,
     <<"U+FF53", <<"U+FF33">>>>, <<"U+FF54", <<"U+FF34">>>>, <<"U+FF55", <<"U+FF35">>>>,
     <<"U+FF56", <<"U+FF36">>>>, <<"U+FF57", <<"U+FF37">>>>, <<"U+FF58", <<"U+FF38">>>>,
     <<"U+FF59", <<"U+FF39">>>>, <<"U+FF5A", <<"U+FF3A">>>>, <<"U+10428", <<"U+10400">>>>,
     <<"U+10429", <<"U+10401">>>>, <<"U+1042A", <<"U+10402">>>>, <<"U+1042B", <<"U+10403">>>>,
     <<"U+1042C", <<"U+10404">>>>, <<"U+1042D", <<"U+10405">>>>, <<"U+1042E", <<"U+10406">>>>,
     <<"U+1042F", <<"U+10407">>>>, <<"U+10430", <<"U+10408">>>>, <<"U+10431", <<"U+10409">>>>,
     <<"U+10432", <<"U+1040A">>>>, <<"U+10433", <<"U+1040B">>>>, <<"U+10434", <<"U+1040C">>>>,
     <<"U+10435", <<"U+1040D">>>>, <<"U+10436", <<"U+1040E">>>>, <<"U+10437", <<"U+1040F">>>>,
     <<"U+10438", <<"U+10410">>>>, <<"U+10439", <<"U+10411">>>>, <<"U+1043A", <<"U+10412">>>>,
     <<"U+1043B", <<"U+10413">>>>, <<"U+1043C", <<"U+10414">>>>, <<"U+1043D", <<"U+10415">>>>,
     <<"U+1043E", <<"U+10416">>>>, <<"U+1043F", <<"U+10417">>>>, <<"U+10440", <<"U+10418">>>>,
     <<"U+10441", <<"U+10419">>>>, <<"U+10442", <<"U+1041A">>>>, <<"U+10443", <<"U+1041B">>>>,
     <<"U+10444", <<"U+1041C">>>>, <<"U+10445", <<"U+1041D">>>>, <<"U+10446", <<"U+1041E">>>>,
     <<"U+10447", <<"U+1041F">>>>, <<"U+10448", <<"U+10420">>>>, <<"U+10449", <<"U+10421">>>>,
     <<"U+1044A", <<"U+10422">>>>, <<"U+1044B", <<"U+10423">>>>, <<"U+1044C", <<"U+10424">>>>,
     <<"U+1044D", <<"U+10425">>>>, <<"U+1044E", <<"U+10426">>>>, <<"U+1044F", <<"U+10427">>>>,
     <<"U+104D8", <<"U+104B0">>>>, <<"U+104D9", <<"U+104B1">>>>, <<"U+104DA", <<"U+104B2">>>>,
     <<"U+104DB", <<"U+104B3">>>>, <<"U+104DC", <<"U+104B4">>>>, <<"U+104DD", <<"U+104B5">>>>,
     <<"U+104DE", <<"U+104B6">>>>, <<"U+104DF", <<"U+104B7">>>>, <<"U+104E0", <<"U+104B8">>>>,
     <<"U+104E1", <<"U+104B9">>>>, <<"U+104E2", <<"U+104BA">>>>, <<"U+104E3", <<"U+104BB">>>>,
     <<"U+104E4", <<"U+104BC">>>>, <<"U+104E5", <<"U+104BD">>>>, <<"U+104E6", <<"U+104BE">>>>,
     <<"U+104E7", <<"U+104BF">>>>, <<"U+104E8", <<"U+104C0">>>>, <<"U+104E9", <<"U+104C1">>>>,
     <<"U+104EA", <<"U+104C2">>>>, <<"U+104EB", <<"U+104C3">>>>, <<"U+104EC", <<"U+104C4">>>>,
     <<"U+104ED", <<"U+104C5">>>>, <<"U+104EE", <<"U+104C6">>>>, <<"U+104EF", <<"U+104C7">>>>,
     <<"U+104F0", <<"U+104C8">>>>, <<"U+104F1", <<"U+104C9">>>>, <<"U+104F2", <<"U+104CA">>>>,
     <<"U+104F3", <<"U+104CB">>>>, <<"U+104F4", <<"U+104CC">>>>, <<"U+104F5", <<"U+104CD">>>>,
     <<"U+104F6", <<"U+104CE">>>>, <<"U+104F7", <<"U+104CF">>>>, <<"U+104F8", <<"U+104D0">>>>,
     <<"U+104F9", <<"U+104D1">>>>, <<"U+104FA", <<"U+104D2">>>>, <<"U+104FB", <<"U+104D3">>>>,
     <<"U+10597", <<"U+10570">>>>, <<"U+10598", <<"U+10571">>>>, <<"U+10599", <<"U+10572">>>>,
     <<"U+1059A", <<"U+10573">>>>, <<"U+1059B", <<"U+10574">>>>, <<"U+1059C", <<"U+10575">>>>,
     <<"U+1059D", <<"U+10576">>>>, <<"U+1059E", <<"U+10577">>>>, <<"U+1059F", <<"U+10578">>>>,
     <<"U+105A0", <<"U+10579">>>>, <<"U+105A1", <<"U+1057A">>>>, <<"U+105A3", <<"U+1057C">>>>,
     <<"U+105A4", <<"U+1057D">>>>, <<"U+105A5", <<"U+1057E">>>>, <<"U+105A6", <<"U+1057F">>>>,
     <<"U+105A7", <<"U+10580">>>>, <<"U+105A8", <<"U+10581">>>>, <<"U+105A9", <<"U+10582">>>>,
     <<"U+105AA", <<"U+10583">>>>, <<"U+105AB", <<"U+10584">>>>, <<"U+105AC", <<"U+10585">>>>,
     <<"U+105AD", <<"U+10586">>>>, <<"U+105AE", <<"U+10587">>>>, <<"U+105AF", <<"U+10588">>>>,
     <<"U+105B0", <<"U+10589">>>>, <<"U+105B1", <<"U+1058A">>>>, <<"U+105B3", <<"U+1058C">>>>,
     <<"U+105B4", <<"U+1058D">>>>, <<"U+105B5", <<"U+1058E">>>>, <<"U+105B6", <<"U+1058F">>>>,
     <<"U+105B7", <<"U+10590">>>>, <<"U+105B8", <<"U+10591">>>>, <<"U+105B9", <<"U+10592">>>>,
     <<"U+105BB", <<"U+10594">>>>, <<"U+105BC", <<"U+10595">>>>, <<"U+10CC0", <<"U+10C80">>>>,
     <<"U+10CC1", <<"U+10C81">>>>, <<"U+10CC2", <<"U+10C82">>>>, <<"U+10CC3", <<"U+10C83">>>>,
     <<"U+10CC4", <<"U+10C84">>>>, <<"U+10CC5", <<"U+10C85">>>>, <<"U+10CC6", <<"U+10C86">>>>,
     <<"U+10CC7", <<"U+10C87">>>>, <<"U+10CC8", <<"U+10C88">>>>, <<"U+10CC9", <<"U+10C89">>>>,
     <<"U+10CCA", <<"U+10C8A">>>>, <<"U+10CCB", <<"U+10C8B">>>>, <<"U+10CCC", <<"U+10C8C">>>>,
     <<"U+10CCD", <<"U+10C8D">>>>, <<"U+10CCE", <<"U+10C8E">>>>, <<"U+10CCF", <<"U+10C8F">>>>,
     <<"U+10CD0", <<"U+10C90">>>>, <<"U+10CD1", <<"U+10C91">>>>, <<"U+10CD2", <<"U+10C92">>>>,
     <<"U+10CD3", <<"U+10C93">>>>, <<"U+10CD4", <<"U+10C94">>>>, <<"U+10CD5", <<"U+10C95">>>>,
     <<"U+10CD6", <<"U+10C96">>>>, <<"U+10CD7", <<"U+10C97">>>>, <<"U+10CD8", <<"U+10C98">>>>,
     <<"U+10CD9", <<"U+10C99">>>>, <<"U+10CDA", <<"U+10C9A">>>>, <<"U+10CDB", <<"U+10C9B">>>>,
     <<"U+10CDC", <<"U+10C9C">>>>, <<"U+10CDD", <<"U+10C9D">>>>, <<"U+10CDE", <<"U+10C9E">>>>,
     <<"U+10CDF", <<"U+10C9F">>>>, <<"U+10CE0", <<"U+10CA0">>>>, <<"U+10CE1", <<"U+10CA1">>>>,
     <<"U+10CE2", <<"U+10CA2">>>>, <<"U+10CE3", <<"U+10CA3">>>>, <<"U+10CE4", <<"U+10CA4">>>>,
     <<"U+10CE5", <<"U+10CA5">>>>, <<"U+10CE6", <<"U+10CA6">>>>, <<"U+10CE7", <<"U+10CA7">>>>,
     <<"U+10CE8", <<"U+10CA8">>>>, <<"U+10CE9", <<"U+10CA9">>>>, <<"U+10CEA", <<"U+10CAA">>>>,
     <<"U+10CEB", <<"U+10CAB">>>>, <<"U+10CEC", <<"U+10CAC">>>>, <<"U+10CED", <<"U+10CAD">>>>,
     <<"U+10CEE", <<"U+10CAE">>>>, <<"U+10CEF", <<"U+10CAF">>>>, <<"U+10CF0", <<"U+10CB0">>>>,
     <<"U+10CF1", <<"U+10CB1">>>>, <<"U+10CF2", <<"U+10CB2">>>>, <<"U+118C0", <<"U+118A0">>>>,
     <<"U+118C1", <<"U+118A1">>>>, <<"U+118C2", <<"U+118A2">>>>, <<"U+118C3", <<"U+118A3">>>>,
     <<"U+118C4", <<"U+118A4">>>>, <<"U+118C5", <<"U+118A5">>>>, <<"U+118C6", <<"U+118A6">>>>,
     <<"U+118C7", <<"U+118A7">>>>, <<"U+118C8", <<"U+118A8">>>>, <<"U+118C9", <<"U+118A9">>>>,
     <<"U+118CA", <<"U+118AA">>>>, <<"U+118CB", <<"U+118AB">>>>, <<"U+118CC", <<"U+118AC">>>>,
     <<"U+118CD", <<"U+118AD">>>>, <<"U+118CE", <<"U+118AE">>>>, <<"U+118CF", <<"U+118AF">>>>,
     <<"U+118D0", <<"U+118B0">>>>, <<"U+118D1", <<"U+118B1">>>>, <<"U+118D2", <<"U+118B2">>>>,
     <<"U+118D3", <<"U+118B3">>>>, <<"U+118D4", <<"U+118B4">>>>, <<"U+118D5", <<"U+118B5">>>>,
     <<"U+118D6", <<"U+118B6">>>>, <<"U+118D7", <<"U+118B7">>>>, <<"U+118D8", <<"U+118B8">>>>,
     <<"U+118D9", <<"U+118B9">>>>, <<"U+118DA", <<"U+118BA">>>>, <<"U+118DB", <<"U+118BB">>>>,
     <<"U+118DC", <<"U+118BC">>>>, <<"U+118DD", <<"U+118BD">>>>, <<"U+118DE", <<"U+118BE">>>>,
     <<"U+118DF", <<"U+118BF">>>>, <<"U+16E60", <<"U+16E40">>>>, <<"U+16E61", <<"U+16E41">>>>,
     <<"U+16E62", <<"U+16E42">>>>, <<"U+16E63", <<"U+16E43">>>>, <<"U+16E64", <<"U+16E44">>>>,
     <<"U+16E65", <<"U+16E45">>>>, <<"U+16E66", <<"U+16E46">>>>, <<"U+16E67", <<"U+16E47">>>>,
     <<"U+16E68", <<"U+16E48">>>>, <<"U+16E69", <<"U+16E49">>>>, <<"U+16E6A", <<"U+16E4A">>>>,
     <<"U+16E6B", <<"U+16E4B">>>>, <<"U+16E6C", <<"U+16E4C">>>>, <<"U+16E6D", <<"U+16E4D">>>>,
     <<"U+16E6E", <<"U+16E4E">>>>, <<"U+16E6F", <<"U+16E4F">>>>, <<"U+16E70", <<"U+16E50">>>>,
     <<"U+16E71", <<"U+16E51">>>>, <<"U+16E72", <<"U+16E52">>>>, <<"U+16E73", <<"U+16E53">>>>,
     <<"U+16E74", <<"U+16E54">>>>, <<"U+16E75", <<"U+16E55">>>>, <<"U+16E76", <<"U+16E56">>>>,
     <<"U+16E77", <<"U+16E57">>>>, <<"U+16E78", <<"U+16E58">>>>, <<"U+16E79", <<"U+16E59">>>>,
     <<"U+16E7A", <<"U+16E5A">>>>, <<"U+16E7B", <<"U+16E5B">>>>, <<"U+16E7C", <<"U+16E5C">>>>,
     <<"U+16E7D", <<"U+16E5D">>>>, <<"U+16E7E", <<"U+16E5E">>>>, <<"U+16E7F", <<"U+16E5F">>>>,
     <<"U+1E922", <<"U+1E900">>>>, <<"U+1E923", <<"U+1E901">>>>, <<"U+1E924", <<"U+1E902">>>>,
     <<"U+1E925", <<"U+1E903">>>>, <<"U+1E926", <<"U+1E904">>>>, <<"U+1E927", <<"U+1E905">>>>,
     <<"U+1E928", <<"U+1E906">>>>, <<"U+1E929", <<"U+1E907">>>>, <<"U+1E92A", <<"U+1E908">>>>,
     <<"U+1E92B", <<"U+1E909">>>>, <<"U+1E92C", <<"U+1E90A">>>>, <<"U+1E92D", <<"U+1E90B">>>>,
     <<"U+1E92E", <<"U+1E90C">>>>, <<"U+1E92F", <<"U+1E90D">>>>, <<"U+1E930", <<"U+1E90E">>>>,
     <<"U+1E931", <<"U+1E90F">>>>, <<"U+1E932", <<"U+1E910">>>>, <<"U+1E933", <<"U+1E911">>>>,
     <<"U+1E934", <<"U+1E912">>>>, <<"U+1E935", <<"U+1E913">>>>, <<"U+1E936", <<"U+1E914">>>>,
     <<"U+1E937", <<"U+1E915">>>>, <<"U+1E938", <<"U+1E916">>>>, <<"U+1E939", <<"U+1E917">>>>,
     <<"U+1E93A", <<"U+1E918">>>>, <<"U+1E93B", <<"U+1E919">>>>, <<"U+1E93C", <<"U+1E91A">>>>,
     <<"U+1E93D", <<"U+1E91B">>>>, <<"U+1E93E", <<"U+1E91C">>>>, <<"U+1E93F", <<"U+1E91D">>>>,
     <<"U+1E940", <<"U+1E91E">>>>, <<"U+1E941", <<"U+1E91F">>>>, <<"U+1E942", <<"U+1E920">>>>,
     <<"U+1E943", <<"U+1E921">>>>>>

\* c.upper() of one character
UpperChar(c) ==
    IF \E k \in 1..26 : LowerCase[k] = c
    THEN <<UpperCase[CHOOSE k \in 1..26 : LowerCase[k] = c]>>
    ELSE IF Len(c) > 1 /\ \E k \in DOMAIN UpperCaseMapping : UpperCaseMapping[k][1] = c
    THEN UpperCaseMapping[CHOOSE k \in DOMAIN UpperCaseMapping :
                              UpperCaseMapping[k][1] = c][2]
    ELSE <<c>>

\* str.upper: the characters of s, each in upper case
RECURSIVE Upper(_)
Upper(s) == IF s = <<>> THEN <<>> ELSE UpperChar(Head(s)) \o Upper(Tail(s))

\* MatrixGroupBy[name]: the member of that name, None for the KeyError.
MatrixGroupBy_getitem(name) ==
    CASE name = <<"R", "A", "N", "K">> -> Some("Rank")
      [] name = <<"C", "O", "R", "E">> -> Some("Core")
      [] name = <<"N", "U", "M", "A">> -> Some("NUMA Node")
      [] name = <<"S", "O", "C", "K", "E", "T">> -> Some("Socket")
      [] name = <<"N", "O", "D", "E">> -> Some("Node")
      [] OTHER -> None

\* A matrix plot and a rank plot as constructed: data is the table the
\* constructor of a plot of tags or of sizes asked for, None for "counts".
MatrixPlot(plot, component, group_by) ==
    [plot |-> plot, component |-> component, group_by |-> group_by]

RankPlot(plot, component, r, table) ==
    [plot |-> plot, component |-> component, rank |-> r, data |-> table]

\* ComponentData.sizes and ComponentData.tags as a function of the caches:
\* the table returned or the exception raised, and the caches after the call.
TableCall(what, c, r) ==
    IF <<what, c, r>> \in DOMAIN tables
    THEN [ok |-> TRUE, v |-> tables[<<what, c, r>>], err |-> NoErr,
          tables |-> tables, cache |-> cache, opened |-> opened]
    ELSE Bind(open_rank(disk, cache, r), LAMBDA o :
        IF ~o.ok
        THEN [ok |-> FALSE, v |-> <<>>, err |-> o.err,
              tables |-> tables, cache |-> o.cache, opened |-> o.opened]
        ELSE Bind(IF what = "sizes" THEN SizeData_from_rf(o.rf, c)
                  ELSE TagData_from_rf(o.rf, c), LAMBDA t :
            IF ~t.ok
            THEN [ok |-> FALSE, v |-> <<>>, err |-> t.err,
                  tables |-> tables, cache |-> o.cache, opened |-> o.opened]
            ELSE [ok |-> TRUE, v |-> t.v, err |-> NoErr,
                  tables |-> Extend(tables, <<what, c, r>>, t.v),
                  cache |-> o.cache, opened |-> o.opened]))

\* The exception create_plot_from_plot_and_param raises for a rank plot
\* whose parameter it does not take.
NoValidRank == Some(Err("Exception", "A valid rank needs to be specified", <<>>))

\* What a call of create_plot_from_plot_and_param leaves: the plot built or
\* None, the exception or None, and the caches.
Created(obj, err, tb, ca, op) ==
    [obj |-> obj, err |-> err, tables |-> tb, cache |-> ca, opened |-> op]

\* create_plot_from_plot_and_param(plot, param, fig, world_meta,
\* component_data), c the name of component_data.
create_plot_from_plot_and_param(plot, param, c) ==
    IF plot \in MATRIX_PLOTS
    THEN Bind(MatrixGroupBy_getitem(Upper(param)), LAMBDA grouping :
             IF IsNone(grouping)
             THEN Created(None, Some(Err("Exception", "Grouping is not one of", <<>>)),
                          tables, cache, opened)
             ELSE Created(Some(MatrixPlot(plot, c, Get(grouping))), NoErr,
                          tables, cache, opened))
    ELSE IF plot \notin RANK_PLOTS
    THEN Created(None, Some(Err("Exception", "Plot type does not exist", <<>>)),
                 tables, cache, opened)
    ELSE Bind(PyInt(param), LAMBDA n :
        IF ~n.ok THEN Created(None, NoValidRank, tables, cache, opened)
        ELSE IF n.v < 0 \/ n.v > meta.num_processes
        THEN Created(None, NoValidRank, tables, cache, opened)
        ELSE IF plot = "counts"
        THEN Created(Some(RankPlot(plot, c, n.v, None)), NoErr,
                     tables, cache, opened)
        ELSE Bind(TableCall(IF plot \in TagPlots THEN "tags" ELSE "sizes", c, n.v),
                  LAMBDA t :
            IF t.ok
            THEN Created(Some(RankPlot(plot, c, n.v, Some(t.v))), NoErr,
                         t.tables, t.cache, t.opened)
            ELSE IF Get(t.err).kind = "ValueError"
            THEN Created(None, NoValidRank, t.tables, t.cache, t.opened)
            ELSE Created(None, t.err, t.tables, t.cache, t.opened)))

\* a[m] for a boolean array m: the elements of a where m holds, a new array.
RECURSIVE Masked(_, _)
Masked(a, m) ==
    IF a = <<>> THEN <<>>
    ELSE (IF Head(m) THEN <<Head(a)>> ELSE <<>>) \o Masked(Tail(a), Tail(m))

\* np.arange(0, n)
Arange(n) == [i \in 1..n |-> i - 1]

\* FilterState
FilterState(size, count, tag) == [size |-> size, count |-> count, tag |-> tag]

\* The dtype of np.array(list(...)) of Python ints: float64 when the list is
\* empty.
LegendArray(legend) == Array(IF legend = <<>> THEN "float64" ELSE "int64", legend)

\* ThreeDimPlotBase.generate_3d_data: the legend cut by its filter, then the
\* peers and the legend entries that keep an occurrence the count filter
\* takes.  Every indexing is by a boolean array, so what is returned shares
\* no storage with peers, metrics_legend or data.  The ValueError of
\* legend_filter.apply leaves the function.
generate_3d_data(peers, metrics_legend, table, legend_filter, count_filter) ==
    IF ApplyRaises(legend_filter, LegendArray(metrics_legend))
    THEN [ok |-> FALSE, err |-> Some(Err("ValueError", "Invalid integer data type", <<>>))]
    ELSE
    Bind(Apply(legend_filter, LegendArray(metrics_legend)),
         LAMBDA metric_filter_array :
    Bind(Masked(metrics_legend, metric_filter_array), LAMBDA metric :
    Bind([p \in 1..Len(table) |-> Masked(table[p], metric_filter_array)],
         LAMBDA occurances :
    Bind([p \in 1..Len(occurances) |->
             [i \in 1..Len(metric) |->
                 /\ Apply(count_filter, Array("uint64", occurances[p]))[i]
                 /\ occurances[p][i] > 0]],
         LAMBDA filtered_occurances :
    Bind([p \in 1..Len(occurances) |->
             \E i \in 1..Len(metric) : filtered_occurances[p][i]],
         LAMBDA procs_count_filter_array :
    Bind([i \in 1..Len(metric) |->
             \E p \in 1..Len(occurances) : filtered_occurances[p][i]],
         LAMBDA metric_count_filter_array :
    Bind(Masked([p \in 1..Len(occurances) |->
                    Masked(occurances[p], metric_count_filter_array)],
                procs_count_filter_array),
         LAMBDA cut :
    Bind(Masked(peers, procs_count_filter_array), LAMBDA peers_cut :
    Bind(Masked(metric, metric_count_filter_array), LAMBDA metric_cut :
        [ok |-> TRUE, err |-> NoErr,
         occurances |-> [i \in 1..Len(metric_cut) |->
                            [p \in 1..Len(peers_cut) |-> cut[p][i]]],
         xticks |-> Arange(Len(peers_cut)),
         yticks |-> Arange(Len(metric_cut)),
         peers |-> peers_cut,
         metric |-> metric_cut])))))))))

\* What draw_plot leaves: what was handed to the figure or the exception, and
\* the ComponentData of the plot after the call.
Drawn(drawn, component_data) ==
    [ok |-> TRUE, drawn |-> drawn, err |-> NoErr, component_data |-> component_data]

NotDrawn(err, component_data) ==
    [ok |-> FALSE, drawn |-> <<>>, err |-> err, component_data |-> component_data]

\* dz[dz > filters.count.max] = filters.count.max, for a RangeFilter with a
\* maximum.  dz is an array of uint64: the maximum is converted to uint64
\* before it is assigned, whatever the mask, and a negative maximum raises
\* OverflowError.
Clamped(dz, count_filter) ==
    IF count_filter.type = "RangeFilter" /\ ~IsNone(count_filter.max)
    THEN IF Get(count_filter.max) < 0
         THEN [ok |-> FALSE, v |-> <<>>,
               err |-> Some(Err("OverflowError", "out of bounds for uint64",
                                <<Get(count_filter.max)>>))]
         ELSE [ok |-> TRUE,
               v |-> [i \in 1..Len(dz) |->
                        IF dz[i] > Get(count_filter.max)
                        THEN Get(count_filter.max) ELSE dz[i]],
               err |-> None]
    ELSE [ok |-> TRUE, v |-> dz, err |-> None]

\* TagsBar3DPlot.draw_plot and SizeBar3DPlot.draw_plot: one bar for every
\* cell of generate_3d_data with occurrences, hidden where the count filter
\* does not take it, as high as the maximum of the count filter at most.  dz
\* is cut out of the raveled cells by a boolean array, so clamping it writes
\* to no array of the table.  Nothing is drawn where clamping raises.
Bar3D_draw_plot(p, legend_filter, count_filter, component_data) ==
    Bind(generate_3d_data(Get(p.data).peers, Get(p.data).occuring, Get(p.data).data,
                          legend_filter, count_filter), LAMBDA g :
    IF ~g.ok THEN NotDrawn(g.err, component_data)
    ELSE
    Bind(Flatten(g.occurances), LAMBDA dz_all :
    Bind([i \in 1..Len(dz_all) |-> dz_all[i] > 0], LAMBDA zero_filter :
    Bind(Masked(dz_all, zero_filter), LAMBDA dz :
    Bind(Masked(Flatten([j \in 1..Len(g.yticks) |-> g.xticks]), zero_filter),
         LAMBDA x :
    Bind(Masked(Flatten([j \in 1..Len(g.yticks) |->
                            [i \in 1..Len(g.xticks) |-> g.yticks[j]]]), zero_filter),
         LAMBDA y :
    Bind(Apply(count_filter, Array("uint64", dz)), LAMBDA shown :
    Bind(Clamped(dz, count_filter), LAMBDA clamped :
        IF ~clamped.ok THEN NotDrawn(clamped.err, component_data)
        ELSE
        Drawn([kind |-> "bar3d",
               bars |-> [i \in 1..Len(dz) |->
                            [x |-> x[i], y |-> y[i],
                             dz |-> clamped.v[i],
                             hidden |-> ~shown[i]]],
               xlabels |-> g.peers, ylabels |-> g.metric],
              component_data)))))))))

\* max(filters.count.min, 1) and max(filters.count.max, 1) of
\* PixelPlotBase._get_norm, None for a bound that is not set and for a count
\* filter that is no RangeFilter.
NormBound(count_filter, b) ==
    IF count_filter.type # "RangeFilter" THEN None
    ELSE IF IsNone(b) THEN None
    ELSE Some(Max(Get(b), 1))

\* PixelPlotBase._get_cmap reads filters.count.min of every count filter
\* that is no Unfiltered (BadFilter is one): only a RangeFilter has it.
CmapRaises(count_filter) ==
    count_filter.type \notin {"Unfiltered", "BadFilter", "RangeFilter"}

\* TagsPixelPlot.draw_plot and SizePixelPlot.draw_plot: the cells of
\* generate_3d_data under the colour map of PixelPlotBase._get_cmap and the
\* LogNorm of PixelPlotBase._get_norm.
Pixel_draw_plot(p, legend_filter, count_filter, component_data) ==
    Bind(generate_3d_data(Get(p.data).peers, Get(p.data).occuring, Get(p.data).data,
                          legend_filter, count_filter), LAMBDA g :
        IF ~g.ok THEN NotDrawn(g.err, component_data)
        ELSE IF CmapRaises(count_filter)
        THEN NotDrawn(Some(Err("AttributeError", "object has no attribute 'min'",
                               <<count_filter.type>>)), component_data)
        ELSE
        Drawn([kind |-> "imshow", occurances |-> g.occurances,
               vmin |-> IF count_filter.type = "RangeFilter"
                        THEN NormBound(count_filter, count_filter.min) ELSE None,
               vmax |-> IF count_filter.type = "RangeFilter"
                        THEN NormBound(count_filter, count_filter.max) ELSE None,
               xlabels |-> g.peers, ylabels |-> g.metric],
              component_data))

\* The mutation of Counts2DBarPlot.draw_plot that clamps y at the maximum of
\* the count filter, as the 3D plots clamp dz, before it is cut: y is then
\* still the row of by_rank.msgs_sent itself.
Counts2DBarPlot_draw_plot_clamping(p, filters, n, component_data) ==
    Bind(NpIndex(p.rank, n), LAMBDA r :
        IF IsNone(r)
        THEN NotDrawn(Some(Err("IndexError", "index out of bounds", <<p.rank>>)),
                      component_data)
        ELSE Bind(Clamped([i \in 1..n |-> component_data.by_rank.msgs_sent[Get(r)][i - 1]],
                          filters.count), LAMBDA clamped :
             IF ~clamped.ok THEN NotDrawn(clamped.err, component_data)
             ELSE
             Bind(clamped.v, LAMBDA y :
             Bind([i \in 1..n |->
                      Apply(filters.count, Array("uint64", y))[i] /\ y[i] > 0],
                  LAMBDA count_filter :
                 Drawn([kind |-> "bar",
                        labels |-> Masked(Arange(n), count_filter),
                        heights |-> Masked(y, count_filter)],
                       [component_data EXCEPT
                           !.by_rank.msgs_sent[Get(r)] =
                               [j \in 0..(n - 1) |-> y[j + 1]]])))))

\* Counts2DBarPlot.draw_plot: y is the row of the rank in by_rank.msgs_sent,
\* read and cut by a boolean array, never written.
Counts2DBarPlot_draw_plot(p, filters, n, component_data) ==
    Bind(NpIndex(p.rank, n), LAMBDA r :
        IF IsNone(r)
        THEN NotDrawn(Some(Err("IndexError", "index out of bounds", <<p.rank>>)),
                      component_data)
        ELSE Bind([i \in 1..n |-> component_data.by_rank.msgs_sent[Get(r)][i - 1]],
                  LAMBDA y :
             Bind([i \in 1..n |->
                      Apply(filters.count, Array("uint64", y))[i] /\ y[i] > 0],
                  LAMBDA count_filter :
                 Drawn([kind |-> "bar",
                        labels |-> Masked(Arange(n), count_filter),
                        heights |-> Masked(y, count_filter)],
                       component_data))))

\* SizeMatrixPlot.draw_plot and CountMatrixPlot.draw_plot
Matrix_draw_plot(p, component_data) ==
    Bind(MatrixPlotBase_group(component_data, p.group_by), LAMBDA g :
        IF ~g.ok THEN NotDrawn(g.err, component_data)
        ELSE Drawn([kind |-> "matrix",
                    matrix |-> IF p.plot = "total_matrix" THEN Get(g.v).total_sent
                               ELSE Get(g.v).msgs_sent],
                   component_data))

\* plot.draw_plot(filters), dispatched on the class of the plot
DrawPlot(p, filters, n, component_data) ==
    CASE p.plot \in MATRIX_PLOTS -> Matrix_draw_plot(p, component_data)
      [] p.plot = "counts" -> Counts2DBarPlot_draw_plot(p, filters, n, component_data)
      [] p.plot = "tags_3d" ->
            Bar3D_draw_plot(p, filters.tag, filters.count, component_data)
      [] p.plot = "sizes_3d" ->
            Bar3D_draw_plot(p, filters.size, filters.count, component_data)
      [] p.plot = "tags_px" ->
            Pixel_draw_plot(p, filters.tag, filters.count, component_data)
      [] p.plot = "sizes_px" ->
            Pixel_draw_plot(p, filters.size, filters.count, component_data)

\* The plot names asked for: the seven plots and one that does not exist.
PlotNames == RANK_PLOTS \cup MATRIX_PLOTS \cup {"pie"}

\* The parameters asked for in a run of n processes: the ranks -1 .. n + 1
\* as written, groupings in either case, a word that is neither, and rank 0
\* written as "0_0".
PlotParams(n) ==
    {IntToStr(i) : i \in (-1)..(n + 1)}
    \cup {<<"r", "a", "n", "k">>, <<"N", "o", "d", "e">>, <<"c", "o", "r", "e">>,
          <<"x">>, <<"0", "_", "0">>}

\* The filters the plots are drawn under: none, a count range that hides and
\* clamps, a legend cut to one size and one tag under a count range, and a
\* legend cut by ranges that are open at one end.
PlotFilters ==
    {FilterState(Unfiltered, Unfiltered, Unfiltered),
     FilterState(Unfiltered, RangeFilter(Some(1), Some(2), None), Unfiltered),
     FilterState(RangeFilter(Some(64), Some(64), None),
                 RangeFilter(Some(2), Some(5), None),
                 ExactFilter(7, None)),
     FilterState(RangeFilter(Some(64), None, None),
                 Unfiltered,
                 RangeFilter(None, Some(7), None)),
     FilterState(Unfiltered, RangeFilter(None, Some(-1), None), Unfiltered),
     FilterState(Unfiltered, ExactFilter(2, None), Unfiltered)}

\* The directories the plots are made from: every rank file present, with
\* and without locality tables, with and without traffic.
PlotTables(K) ==
    {<<>>, <<<<IntToStr(K - 1), PeerTwoCallsites>>>>}
    \cup (IF K = 1 THEN {<<<<IntToStr(0), PeerScenario>>>>}
          ELSE {<<<<IntToStr(0), PeerScenario>>, <<IntToStr(K - 1), PeerSwapped>>>>})

PlotDirectories ==
    UNION {{Directory(K, K, layout, K - 1, t0, NoTables(K)) :
               layout \in {"node_single_numa_all", "none"},
               t0 \in PlotTables(K)}
           : K \in 1..MaxProcs}

InitRankPlot ==
    /\ disk \in PlotDirectories
    /\ pc = "Uninitialized"
    /\ rank = 0
    /\ cache = None
    /\ opened = <<>>
    /\ meta = EmptyMeta
    /\ scan = EmptyScan
    /\ resolved = EmptyResolved
    /\ order = <<>>
    /\ components = <<>>
    /\ error = None
    /\ tables = <<>>
    /\ ret = None
    /\ asked = None
    /\ LocOff
    /\ FilterOff

\* A caller that holds no plot asks create_plot_from_plot_and_param for one.
create_plot ==
    /\ pc = "Ready"
    /\ asked = None
    /\ \E plot \in PlotNames, param \in PlotParams(meta.num_processes),
          c \in DOMAIN components :
          \E made \in {create_plot_from_plot_and_param(plot, param, c)} :
             /\ asked' = Some([plot |-> plot, param |-> param, component |-> c,
                               obj |-> made.obj])
             /\ error' = made.err
             /\ tables' = made.tables
             /\ cache' = made.cache
             /\ opened' = made.opened
    /\ ret' = None
    /\ UNCHANGED <<disk, pc, rank, meta, scan, resolved, order, components>>
    /\ UNCHANGED <<lvars, fvars>>

\* The caller draws the plot it holds under some filters.
draw_plot ==
    /\ pc = "Ready"
    /\ asked # None
    /\ Get(asked).obj # None
    /\ \E filters \in PlotFilters :
          \E d \in {DrawPlot(Get(Get(asked).obj), filters, meta.num_processes,
                             components[Get(asked).component])} :
             /\ ret' = IF d.ok THEN Some(d.drawn) ELSE None
             /\ error' = d.err
             /\ components' = [components EXCEPT
                                  ![Get(asked).component] = d.component_data]
    /\ UNCHANGED <<disk, pc, rank, cache, opened, meta, scan, resolved, order,
                   tables, asked>>
    /\ UNCHANGED <<lvars, fvars>>

\* The caller lets go of the plot, or of the exception; the table only the
\* plot referred to leaves the weak cache with it.
discard_plot ==
    /\ pc = "Ready"
    /\ asked # None
    /\ asked' = None
    /\ tables' = <<>>
    /\ ret' = None
    /\ error' = None
    /\ UNCHANGED <<disk, pc, rank, cache, opened, meta, scan, resolved, order,
                   components>>
    /\ UNCHANGED <<lvars, fvars>>

\* Construction, then plots made, drawn and dropped.
NextRankPlot ==
    \/ parse_metadata
    \/ pass1_step
    \/ pass1_done
    \/ pass2_step
    \/ regroup_all
    \/ create_plot
    \/ draw_plot
    \/ discard_plot

SpecRankPlot == InitRankPlot /\ [][NextRankPlot]_vars

\* ------------------------------------------------------ the resolver alone

\* The aggregation engine at rest.
WorldOff ==
    /\ disk = <<>>
    /\ pc = "Off"
    /\ rank = 0
    /\ cache = None
    /\ opened = <<>>
    /\ meta = EmptyMeta
    /\ scan = EmptyScan
    /\ resolved = EmptyResolved
    /\ order = <<>>
    /\ components = <<>>
    /\ error = None
    /\ tables = <<>>
    /\ ret = None
    /\ asked = None

\* The list comprehension that pass 1 builds rank by rank: the decoded
\* general.localities of every file, or Fail when a file does not decode.
RECURSIVE unparsed_localities(_)
unparsed_localities(raw) ==
    IF raw = <<>> THEN Ok(<<>>)
    ELSE Bind(DecodeLocalities(Head(raw)), LAMBDA first :
         Bind(unparsed_localities(Tail(raw)), LAMBDA rest :
             IF first.ok /\ rest.ok THEN Ok(<<first.v>> \o rest.v) ELSE Fail))

LocInit ==
    /\ loc_raw \in LocalityInputs
    /\ loc_pc = "Raw"
    /\ loc_decoded = <<>>
    /\ loc_type = ""
    /\ loc_result = None
    /\ WorldOff
    /\ FilterOff

\* The rank files are decoded.
decode_localities ==
    /\ loc_pc = "Raw"
    /\ \E d \in {unparsed_localities(loc_raw)} :
          IF d.ok
          THEN loc_decoded' = d.v /\ loc_pc' = "Decoded"
          ELSE loc_pc' = "Rejected" /\ UNCHANGED loc_decoded
    /\ UNCHANGED <<loc_raw, loc_type, loc_result>>
    /\ UNCHANGED <<wvars, fvars>>

\* One call of _get_localities_from_rfs.
resolve ==
    /\ loc_pc = "Decoded"
    /\ \E t \in LocalityType :
          /\ loc_type' = t
          /\ loc_result' = Some(get_localities_from_rfs(loc_decoded, t))
    /\ loc_pc' = "Resolved"
    /\ UNCHANGED <<loc_raw, loc_decoded>>
    /\ UNCHANGED <<wvars, fvars>>

NextLoc ==
    \/ decode_localities
    \/ resolve

SpecLoc == LocInit /\ [][NextLoc]_vars

\* ------------------------------------------------------- the filters alone

FilterInit ==
    /\ lib \in Libs
    /\ fpc = "Start"
    /\ text = <<>>
    /\ filter = None
    /\ via = NoCall
    /\ origin = None
    /\ data = None
    /\ mask = None
    /\ WorldOff
    /\ LocOff

\* A caller constructs a filter object.
construct ==
    /\ fpc = "Start"
    /\ \E f \in FilterPool(lib) : filter' = Some(f)
    /\ via' = Call("construct", FALSE, FALSE, "")
    /\ fpc' = "Built"
    /\ UNCHANGED <<lib, text, origin, data, mask>>
    /\ UNCHANGED <<wvars, lvars>>

\* A text is typed into a filter line or given on the command line.
set_text ==
    /\ fpc = "Start"
    /\ \E t \in TextPool : text' = t
    /\ fpc' = "Text"
    /\ UNCHANGED <<lib, filter, via, origin, data, mask>>
    /\ UNCHANGED <<wvars, lvars>>

\* What a parsing call leaves: the filter it returned, or the ValueError.
Parsed(r, call) ==
    /\ via' = call
    /\ IF r.ok
       THEN filter' = Some(r.f) /\ fpc' = "Built"
       ELSE filter' = None /\ fpc' = "Raised"
    /\ UNCHANGED <<lib, text, origin, data, mask>>
    /\ UNCHANGED <<wvars, lvars>>

\* MultiRangeFilter(text, tolerant), mpiperfcli.filters
new_MultiRangeFilter ==
    /\ fpc \in {"Text", "Printed"}
    /\ lib = "mpiperfcli"
    /\ \E tolerant \in BOOLEAN :
          Parsed(MultiRangeFilter(text, tolerant),
                 Call("MultiRangeFilter", tolerant, FALSE, ""))

\* DiscreteMultiRangeFilter(text, tolerant), filtering.filters
new_DiscreteMultiRangeFilter ==
    /\ fpc \in {"Text", "Printed"}
    /\ lib = "filtering"
    /\ \E tolerant \in BOOLEAN :
          Parsed(DiscreteMultiRangeFilter(text, tolerant),
                 Call("DiscreteMultiRangeFilter", tolerant, FALSE, ""))

\* parse_filter(text), the command line of mpiperfcli
call_parse_filter ==
    /\ fpc \in {"Text", "Printed"}
    /\ lib = "mpiperfcli"
    /\ Parsed(parse_filter(text), Call("parse_filter", FALSE, FALSE, ""))

\* DiscreteMultiRangeFilterWidget.state() with the text in its line edit, where
\* the widgets can be imported
widget_state ==
    /\ fpc = "Text"
    /\ ImportsResolve(lib)
    /\ Parsed(Returned(DiscreteMultiRangeFilterWidget_state(text)),
              Call("widget", FALSE, FALSE, ""))

\* TagFilterObject.state() with the text in the line edit of both widgets,
\* where the widgets can be imported
tag_state ==
    /\ fpc = "Text"
    /\ ImportsResolve(lib)
    /\ \E checked \in BOOLEAN, mode \in {"INCLUDE", "EXCLUDE"} :
          Parsed(Returned(TagFilterObject_state(checked, mode, text, text)),
                 Call("tag", FALSE, checked, mode))

\* str(filter): the text is replaced by what the filter prints.
to_str ==
    /\ fpc = "Built"
    /\ IsNone(origin)
    /\ text' = Str(lib, Get(filter))
    /\ origin' = filter
    /\ fpc' = "Printed"
    /\ UNCHANGED <<lib, filter, via, data, mask>>
    /\ UNCHANGED <<wvars, lvars>>

\* filter.apply(data)
apply ==
    /\ fpc = "Built"
    /\ \E x \in ArrayPool :
          /\ data' = Some(x)
          /\ IF ApplyRaises(Get(filter), x)
             THEN mask' = None /\ fpc' = "ApplyRaised"
             ELSE mask' = Some(Apply(Get(filter), x)) /\ fpc' = "Applied"
    /\ UNCHANGED <<lib, text, filter, via, origin>>
    /\ UNCHANGED <<wvars, lvars>>

NextFilter ==
    \/ construct
    \/ set_text
    \/ new_MultiRangeFilter
    \/ new_DiscreteMultiRangeFilter
    \/ call_parse_filter
    \/ widget_state
    \/ tag_state
    \/ to_str
    \/ apply

SpecFilter == FilterInit /\ [][NextFilter]_vars

\* ------------------------------------------------- the collectives dialog

\* The tags of the check boxes of the dialog, MPI_Allgather to MPI_Scatterv.
COLLECTIVES ==
    <<-10, -11, -12, -13, -14, -15, -16, -17, -18, -19, -20, -21, -22, -23, -24,
      -25, -26>>

\* The check/uncheck handlers are followed while the line holds at most
\* MaxSegments segments, and in one opening of the dialog up to the first
\* exception.
MaxSegments == 2

\* The boxes of the dialog that are set and cleared are the first MaxBoxes.
MaxBoxes == 4

\* RangeFilter.remove_exact: the text of the range without n.
RangeFilter_remove_exact(f, n) ==
    Bind(IF IsNone(f.min) THEN MINUS_INF ELSE IntToStr(Get(f.min)), LAMBDA min_str :
    Bind(IF IsNone(f.max) THEN PLUS_INF ELSE IntToStr(Get(f.max)), LAMBDA max_str :
        IF (~IsNone(f.min) /\ n < Get(f.min)) \/ (~IsNone(f.max) /\ n > Get(f.max))
        THEN RangeText(min_str, max_str)
        ELSE Bind(IF f.min = Some(n) THEN <<>>
                  ELSE IF f.min = Some(n - 1) THEN min_str
                  ELSE <<"[">> \o min_str \o <<";", " ">> \o IntToStr(n - 1) \o <<"]">>,
                  LAMBDA left :
             Bind(IF f.max = Some(n) THEN <<>>
                  ELSE IF f.max = Some(n + 1) THEN max_str
                  ELSE RangeText(IntToStr(n + 1), max_str),
                  LAMBDA right :
                 IF left = <<>> THEN right
                 ELSE IF right = <<>> THEN left
                 ELSE left \o <<",">> \o right))))

\* What a handler of the widget leaves: the text it set, or the exception.
TextSet(t) == [ok |-> TRUE, text |-> t, err |-> NoErr]

NoSegment ==
    [ok |-> FALSE, text |-> <<>>,
     err |-> Some(Err("Exception", "Filter should be associated with string segment",
                      <<>>))]

\* The first loop of _collectives_unchecked: the segment of every exact value
\* equal to the tag is emptied.
RECURSIVE UncheckExact(_, _, _)
UncheckExact(segments, exact, tag) ==
    IF exact = <<>> THEN [ok |-> TRUE, segments |-> segments]
    ELSE IF IsNone(Head(exact).segment) THEN [ok |-> FALSE, segments |-> segments]
    ELSE UncheckExact(IF Head(exact).n = tag
                      THEN [segments EXCEPT ![Get(Head(exact).segment) + 1] = <<>>]
                      ELSE segments,
                      Tail(exact), tag)

\* The second loop: the segment of every range is replaced by remove_exact.
RECURSIVE UncheckRanges(_, _, _)
UncheckRanges(segments, ranges, tag) ==
    IF ranges = <<>> THEN [ok |-> TRUE, segments |-> segments]
    ELSE IF IsNone(Head(ranges).segment) THEN [ok |-> FALSE, segments |-> segments]
    ELSE UncheckRanges([segments EXCEPT ![Get(Head(ranges).segment) + 1] =
                            RangeFilter_remove_exact(Head(ranges), tag)],
                       Tail(ranges), tag)

\* DiscreteMultiRangeFilterWidget._collectives_unchecked
collectives_unchecked_text(line_edit, tag) ==
    Bind(DiscreteMultiRangeFilter(line_edit, TRUE).f, LAMBDA f :
    Bind(UncheckExact(Split(line_edit, ","), f.exact, tag), LAMBDA e :
        IF ~e.ok THEN NoSegment
        ELSE Bind(UncheckRanges(e.segments, f.ranges, tag), LAMBDA r :
            IF ~r.ok THEN NoSegment
            ELSE TextSet(Join(SelectSeq(r.segments, LAMBDA s : s # <<>>), ",")))))

\* DiscreteMultiRangeFilterWidget._collectives_checked
collectives_checked_text(line_edit, tag) ==
    IF line_edit = <<>> THEN IntToStr(tag)
    ELSE line_edit \o <<",">> \o IntToStr(tag)

\* The texts typed into the line of the widget, over the characters its
\* validator admits (DISCRETE_MULTIRANGE_REGEXP).
WidgetTexts ==
    {<<>>, IntToStr(-11), IntToStr(-10) \o <<",">> \o IntToStr(-11),
     IntToStr(-11) \o <<",">> \o IntToStr(-11),
     RangeText(IntToStr(-12), IntToStr(-10)),
     RangeText(IntToStr(-11), IntToStr(-10)),
     RangeText(IntToStr(-12), IntToStr(-11)),
     RangeText(IntToStr(-11), IntToStr(-11)),
     RangeText(IntToStr(-13), IntToStr(-9)),
     RangeText(IntToStr(-10), IntToStr(-12)),
     RangeText(MINUS_INF, IntToStr(-25)),
     RangeText(IntToStr(-11), PLUS_INF),
     RangeText(MINUS_INF, INF),
     IntToStr(-11) \o <<",">> \o RangeText(IntToStr(-12), IntToStr(-10)),
     RangeText(IntToStr(-12), IntToStr(-10)) \o <<",">> \o IntToStr(-11),
     RangeText(IntToStr(-12), IntToStr(-11)) \o <<",">>
         \o RangeText(IntToStr(-11), IntToStr(-10)),
     <<"f">> \o <<",">> \o IntToStr(-11),
     <<"[", "-", "1", "1", ";", "-", "1", "0">>,
     RangeText(PLUS_INF, IntToStr(-11))}

\* The ranges given to remove_exact: those the multi-range class of the
\* module reads from the texts.
MultiRangeClass(l, t, tolerant) ==
    IF l = "mpiperfcli" THEN MultiRangeFilter(t, tolerant)
    ELSE DiscreteMultiRangeFilter(t, tolerant)

RemovePool(l) ==
    UNION {{MultiRangeClass(l, t, TRUE).f.ranges[i] :
               i \in 1..Len(MultiRangeClass(l, t, TRUE).f.ranges)} :
           t \in WidgetTexts}

\* The boxes of the dialog: all clear until edit_pressed sets them.
Boxes == IF IsNone(mask) THEN [i \in 1..Len(COLLECTIVES) |-> FALSE] ELSE Get(mask)

\* A widget of another filter view: its line and the boxes of its dialog.
Widget(t, boxes) == [text |-> t, boxes |-> boxes]

\* The other widget after a text was typed and Edit was pressed.
AfterEdit(t) ==
    Widget(t, Apply(DiscreteMultiRangeFilter(t, TRUE).f, Array("int64", COLLECTIVES)))

\* The other widget after box i of its open dialog was cleared.
AfterUncheck(w, i) ==
    Widget(collectives_unchecked_text(w.text, COLLECTIVES[i]).text,
           [w.boxes EXCEPT ![i] = FALSE])

\* The widgets whose values are copied: a new one, and one left by the
\* handlers above.
OtherWidgets ==
    {Widget(<<>>, [i \in 1..Len(COLLECTIVES) |-> FALSE]),
     AfterUncheck(AfterEdit(RangeText(IntToStr(-13), IntToStr(-9))), 2)}

\* QCheckBox.setCheckState on a box of a visible dialog: a box whose state
\* changes reports to the handler of the widget, which rewrites the line.
BoxCopied(line_edit, mine, theirs, tag) ==
    IF mine = theirs THEN line_edit
    ELSE IF theirs THEN collectives_checked_text(line_edit, tag)
    ELSE Bind(collectives_unchecked_text(line_edit, tag), LAMBDA r :
             IF r.ok THEN r.text ELSE line_edit)

\* CollectivesDialog.copy_values from box i on while the dialog is visible:
\* the line after the boxes were set one after the other. (The line after a
\* box is drawn from a set of one element, which makes it a value before the
\* next box is looked at.)
RECURSIVE CopyBoxes(_, _, _, _)
CopyBoxes(line_edit, mine, theirs, i) ==
    IF i > Len(COLLECTIVES) THEN line_edit
    ELSE CHOOSE line \in
             {CopyBoxes(t, mine, theirs, i + 1) :
                 t \in {BoxCopied(line_edit, mine[i], theirs[i], COLLECTIVES[i])}} :
             TRUE

\* The import of filter_widgets beside a filters module that lacks one of the
\* names: ImportError, and no widget exists.
import_filter_widgets ==
    /\ fpc = "Start"
    /\ ~ImportsResolve(lib)
    /\ fpc' = "ImportError"
    /\ error' = Some(Err("ImportError", "cannot import name",
                         <<Head(MissingImports(lib))>>))
    /\ UNCHANGED <<lib, text, filter, via, origin, data, mask>>
    /\ UNCHANGED <<disk, pc, rank, cache, opened, meta, scan, resolved, order,
                   components, tables, ret, asked>>
    /\ UNCHANGED lvars

\* RangeFilter.remove_exact(n) on a range of the module: the text it returns.
remove_exact ==
    /\ fpc = "Start"
    /\ \E f \in RemovePool(lib), i \in 1..MaxBoxes :
          /\ filter' = Some(f)
          /\ text' = RangeFilter_remove_exact(f, COLLECTIVES[i])
    /\ via' = Call("remove_exact", FALSE, FALSE, "")
    /\ fpc' = "Removed"
    /\ UNCHANGED <<lib, origin, data, mask>>
    /\ UNCHANGED <<wvars, lvars>>

\* The user types a text into the line of the widget.
type_text ==
    /\ fpc = "Start"
    /\ ImportsResolve(lib)
    /\ \E t \in WidgetTexts : text' = t
    /\ fpc' = "Text"
    /\ UNCHANGED <<lib, filter, via, origin, data, mask>>
    /\ UNCHANGED <<wvars, lvars>>

\* DiscreteMultiRangeFilterWidget.edit_pressed: the boxes are set from the
\* tolerant reading of the line and the dialog opens. The dialog is not yet
\* visible while the boxes are set, so their changes are not reported.
edit_pressed ==
    /\ fpc = "Text"
    /\ filter' = Some(DiscreteMultiRangeFilter(text, TRUE).f)
    /\ data' = Some(Array("int64", COLLECTIVES))
    /\ mask' = Some(Apply(DiscreteMultiRangeFilter(text, TRUE).f,
                          Array("int64", COLLECTIVES)))
    /\ via' = Call("edit_pressed", TRUE, FALSE, "")
    /\ fpc' = "Open"
    /\ UNCHANGED <<lib, text, origin>>
    /\ UNCHANGED <<wvars, lvars>>

\* The user clears a box of the open dialog: the dialog emits unchecked(tag)
\* and _collectives_unchecked sets the line, or raises.
collectives_unchecked ==
    /\ fpc = "Open"
    /\ error = None
    /\ Len(Split(text, ",")) <= MaxSegments
    /\ \E i \in 1..MaxBoxes :
          /\ Get(mask)[i]
          /\ mask' = Some([Get(mask) EXCEPT ![i] = FALSE])
          /\ \E r \in {collectives_unchecked_text(text, COLLECTIVES[i])} :
                /\ text' = IF r.ok THEN r.text ELSE text
                /\ error' = r.err
    /\ via' = Call("_collectives_unchecked", TRUE, FALSE, "")
    /\ UNCHANGED <<fpc, lib, filter, origin, data>>
    /\ UNCHANGED <<disk, pc, rank, cache, opened, meta, scan, resolved, order,
                   components, tables, ret, asked>>
    /\ UNCHANGED lvars

\* The user sets a box of the open dialog: the dialog emits checked(tag) and
\* _collectives_checked appends the tag to the line.
collectives_checked ==
    /\ fpc = "Open"
    /\ error = None
    /\ Len(Split(text, ",")) <= MaxSegments
    /\ \E i \in 1..MaxBoxes :
          /\ ~Get(mask)[i]
          /\ mask' = Some([Get(mask) EXCEPT ![i] = TRUE])
          /\ text' = collectives_checked_text(text, COLLECTIVES[i])
    /\ error' = None
    /\ via' = Call("_collectives_checked", FALSE, FALSE, "")
    /\ UNCHANGED <<fpc, lib, filter, origin, data>>
    /\ UNCHANGED <<disk, pc, rank, cache, opened, meta, scan, resolved, order,
                   components, tables, ret, asked>>
    /\ UNCHANGED lvars

\* CollectivesDialog.close_pressed
close_pressed ==
    /\ fpc = "Open"
    /\ fpc' = "Text"
    /\ error' = None
    /\ UNCHANGED <<lib, text, filter, via, origin, data, mask>>
    /\ UNCHANGED <<disk, pc, rank, cache, opened, meta, scan, resolved, order,
                   components, tables, ret, asked>>
    /\ UNCHANGED lvars

\* DiscreteMultiRangeFilterWidget.copy_values, called by
\* TagFilterObject.copy_values when a filter is applied to all plots: the
\* check box of the filter is copied first, and clearing it hides the dialog;
\* then the line is set to the other's and the boxes to the other's, each
\* changed box of a visible dialog reporting to the handlers. A run is
\* followed up to the copy.
copy_values ==
    /\ fpc \in {"Text", "Open"}
    /\ error = None
    /\ \E other \in OtherWidgets, enabled \in BOOLEAN :
          /\ text' = IF fpc = "Open" /\ enabled
                     THEN CopyBoxes(other.text, Boxes, other.boxes, 1)
                     ELSE other.text
          /\ mask' = Some(other.boxes)
          /\ via' = Call("copy_values", FALSE, fpc = "Open" /\ enabled, "")
    /\ fpc' = "Copied"
    /\ UNCHANGED <<lib, filter, origin, data>>
    /\ UNCHANGED <<wvars, lvars>>

NextWidget ==
    \/ import_filter_widgets
    \/ remove_exact
    \/ type_text
    \/ edit_pressed
    \/ collectives_unchecked
    \/ collectives_checked
    \/ close_pressed
    \/ copy_values

SpecWidget == FilterInit /\ [][NextWidget]_vars

\* ------------------------------------------------------------ what is claimed

\* The sum of the values of a function with a finite domain.
RECURSIVE SumFn(_)
SumFn(f) ==
    IF DOMAIN f = {} THEN 0
    ELSE Bind(CHOOSE x \in DOMAIN f : TRUE, LAMBDA x :
             f[x] + SumFn(Restrict(f, DOMAIN f \ {x})))

\* The record that rank s's file decodes to.
FileOf(s) == from_toml(disk[s]).v

\* The callsite entries of component c that a decoded file records for peer
\* r: none when the file has no peer r or no messages of c for r.
RecordedFor(rf, c, r) ==
    IF HasKey(rf.peers, r) /\ HasKey(Lookup(rf.peers, r).sent_messages, c)
    THEN Lookup(Lookup(rf.peers, r).sent_messages, c)
    ELSE <<>>

\* size * occurrences over every tag of one size entry
BytesOfMsg(m) == SumSeq([t \in 1..Len(m.tags) |-> m.size * m.tags[t][2]])

BytesOfCallsite(cs) == SumSeq([m \in 1..Len(cs.msgs) |-> BytesOfMsg(cs.msgs[m])])

BytesRecorded(rf, c, r) ==
    Bind(RecordedFor(rf, c, r), LAMBDA css :
        SumSeq([k \in 1..Len(css) |-> BytesOfCallsite(css[k])]))

\* C1: after construction, for every component c, sender s and receiver r,
\* by_rank.total_sent[s][r] is the sum of size * occurrences over every
\* callsite, size entry and tag of c that the file of s records for peer r,
\* and 0 when the file has no peer r or no messages of c for r.
C1_BytesSentIsRecordedSum ==
    pc = "Ready" =>
        \A c \in DOMAIN components :
            \A s \in 0..(meta.num_processes - 1), r \in 0..(meta.num_processes - 1) :
                components[c].by_rank.total_sent[s][r] = BytesRecorded(FileOf(s), c, r)

\* The count a decoded file declares in sent_count[c] for peer r, 0 for a
\* peer the file does not have.
CountDeclared(rf, c, r) ==
    IF HasKey(rf.peers, r) /\ HasKey(Lookup(rf.peers, r).sent_count, c)
    THEN Lookup(Lookup(rf.peers, r).sent_count, c)
    ELSE 0

\* C2: after aggregation, by_rank.msgs_sent[s][r] of component c is the count
\* that the file of s declares in sent_count[c] for peer r, whatever its
\* callsite entries say.
C2_MsgsSentIsDeclaredCount ==
    pc = "Ready" =>
        \A c \in DOMAIN components :
            \A s \in 0..(meta.num_processes - 1), r \in 0..(meta.num_processes - 1) :
                components[c].by_rank.msgs_sent[s][r] = CountDeclared(FileOf(s), c, r)

\* The locality levels, each with the field of ComponentData that holds its
\* regrouped matrices.
Levels == {"node", "numa", "socket", "core"}

ByLevel(cd, level) ==
    CASE level = "node" -> cd.by_node
      [] level = "numa" -> cd.by_numa
      [] level = "socket" -> cd.by_socket
      [] level = "core" -> cd.by_core

\* The sum of m[s][r] over the ranks s of the set A and r of the set B.
BlockSum(m, A, B) == SumFn([p \in A \X B |-> m[p[1]][p[2]]])

\* C3: for every resolved level and every pair of groups (A, B), the
\* regrouped cell is the sum of by_rank[s][r] over s in A and r in B, for
\* msgs_sent and total_sent, and the regrouped matrix and by_rank have the
\* same sum over all cells.
C3_RegroupIsPartitionSum ==
    pc = "Ready" =>
        \A c \in DOMAIN components, level \in Levels :
            ~IsNone(resolved[level]) =>
                \E groups \in {Get(resolved[level])},
                   gm \in {Get(ByLevel(components[c], level))},
                   all \in {0..(meta.num_processes - 1)} :
                    \A what \in {"msgs_sent", "total_sent"} :
                        /\ \A a \in 1..Len(groups), b \in 1..Len(groups) :
                              gm[what][a - 1][b - 1] =
                                  BlockSum(components[c].by_rank[what],
                                           Range(groups[a]), Range(groups[b]))
                        /\ BlockSum(gm[what], 0..(Len(groups) - 1),
                                    0..(Len(groups) - 1))
                              = BlockSum(components[c].by_rank[what], all, all)

\* The places <<group, position>> of a grouping at which rank r is listed.
PlacesOf(groups, r) ==
    {p \in UNION {{<<g, i>> : i \in 1..Len(groups[g])} : g \in 1..Len(groups)} :
        groups[p[1]][p[2]] = r}

\* C4: a grouping that _get_localities_from_rfs returns is a partition of
\* the ranks 0..process_count-1: every rank is listed in exactly one group
\* and exactly once there.
C4_GroupsPartitionRanks ==
    (loc_pc = "Resolved" /\ Get(loc_result).kind = "groups") =>
        \A r \in 0..(Len(loc_decoded) - 1) :
            Cardinality(PlacesOf(Get(loc_result).groups, r)) = 1

\* The claims of the kind asked for in the file of rank r.
ClaimsOf(r) == ClaimsOfType(loc_decoded[r + 1], loc_type)

\* Rank a's claim lists rank b, and rank b's own claim is a different peer set.
Asymmetric(a, b) ==
    /\ Len(ClaimsOf(a)) = 1
    /\ Len(ClaimsOf(b)) = 1
    /\ b \in Range(ClaimsOf(a)[1].peers)
    /\ Range(ClaimsOf(b)[1].peers) # Range(ClaimsOf(a)[1].peers)

\* No file holds two claims of the kind asked for, and every rank a claim
\* lists has a file.
ClaimsWellFormed ==
    \A r \in 0..(Len(loc_decoded) - 1) :
        /\ Len(ClaimsOf(r)) <= 1
        /\ Len(ClaimsOf(r)) = 1 =>
              \A p \in Range(ClaimsOf(r)[1].peers) : p < Len(loc_decoded)

\* C5: resolution is symmetric or fails: when some rank's claim lists a rank
\* whose own claim is a different peer set, resolution raises the
\* inconsistency error, which names two ranks, and returns no grouping; and
\* in a grouping that is returned every rank of a group G declares exactly
\* the peer set G.
C5_SymmetricOrFails ==
    loc_pc = "Resolved" =>
        /\ (/\ ClaimsWellFormed
            /\ \E a \in 0..(Len(loc_decoded) - 1), b \in 0..(Len(loc_decoded) - 1) :
                  Asymmetric(a, b))
              => /\ Get(loc_result).kind = "error"
                 /\ Get(loc_result).err.msg = "Locality differs"
                 /\ Len(Get(loc_result).err.names) = 2
        /\ Get(loc_result).kind = "groups" =>
              \A g \in 1..Len(Get(loc_result).groups) :
                  \A r \in Range(Get(loc_result).groups[g]) :
                      /\ Len(ClaimsOf(r)) = 1
                      /\ Range(ClaimsOf(r)[1].peers) = Range(Get(loc_result).groups[g])

\* The size entries of component c that a decoded file records for the peer
\* with key r, over all callsites.
EntriesFor(rf, c, r) ==
    Bind(RecordedFor(rf, c, r), LAMBDA css :
        Flatten([k \in 1..Len(css) |-> css[k].msgs]))

\* The occurrences of messages of one size among size entries, summed over
\* the entries and their tags.
OccurrencesOfSize(entries, size) ==
    SumSeq([k \in 1..Len(entries) |->
               IF entries[k].size = size
               THEN SumSeq([t \in 1..Len(entries[k].tags) |-> entries[k].tags[t][2]])
               ELSE 0])

\* C6: the table SizeData.from_rf returns for a rank and a component has
\* occuring_sizes strictly ascending and equal to the distinct sizes the rank
\* sent within the component, data of shape len(peers) x len(occuring_sizes),
\* and data[p][i] the occurrences of size occuring_sizes[i] sent to peers[p],
\* summed over callsites, size entries and tags.
C6_SizeTable ==
    \A key \in DOMAIN tables :
        key[1] = "sizes" =>
            \E t \in {tables[key]}, rf \in {FileOf(key[3])} :
                /\ t.rank = key[3]
                /\ \A i \in 1..(Len(t.occuring) - 1) : t.occuring[i] < t.occuring[i + 1]
                /\ Range(t.occuring) =
                      UNION {{e.size : e \in Range(EntriesFor(rf, key[2], r))}
                             : r \in Keys(rf.peers)}
                /\ Range(t.peers) = Keys(rf.peers)
                /\ Len(t.peers) = Len(rf.peers)
                /\ Len(t.data) = Len(t.peers)
                /\ \A p \in 1..Len(t.peers) :
                      /\ Len(t.data[p]) = Len(t.occuring)
                      /\ \A i \in 1..Len(t.occuring) :
                            t.data[p][i] =
                                OccurrencesOfSize(EntriesFor(rf, key[2], t.peers[p]),
                                                  t.occuring[i])

\* The scenario: rank 0 of two sent 3 messages of size 64 and 2 of size 128
\* to rank 1 within "mtl", and the table of rank 0 and "mtl" is held.
C6_ScenarioTable ==
    /\ <<"sizes", "mtl", 0>> \in DOMAIN tables
    /\ tables[<<"sizes", "mtl", 0>>].occuring = <<64, 128>>
    /\ tables[<<"sizes", "mtl", 0>>].peers = <<1>>
    /\ tables[<<"sizes", "mtl", 0>>].data = <<<<3, 2>>>>

\* The ranges and the exact values of a filter, without the segments: of a
\* RangeFilter itself, of an ExactFilter itself, of a multi-range filter its
\* two lists, of an inverted filter those of the filter it inverts.
RECURSIVE RangesIn(_)
RangesIn(f) ==
    CASE f.type = "RangeFilter" -> <<<<f.min, f.max>>>>
      [] f.type = "ExactFilter" -> <<>>
      [] f.type \in MultiTypes ->
            [i \in 1..Len(f.ranges) |-> <<f.ranges[i].min, f.ranges[i].max>>]
      [] f.type = "InvertedFilter" -> RangesIn(f.inner)

RECURSIVE ExactIn(_)
ExactIn(f) ==
    CASE f.type = "RangeFilter" -> <<>>
      [] f.type = "ExactFilter" -> <<f.n>>
      [] f.type \in MultiTypes -> [i \in 1..Len(f.exact) |-> f.exact[i].n]
      [] f.type = "InvertedFilter" -> ExactIn(f.inner)

Negated(f) == f.type = "InvertedFilter"

\* A filter built only from ranges and exact values, with at most one
\* leading negation.
IsPure(f) ==
    \/ f.type \in {"RangeFilter", "ExactFilter"} \cup MultiTypes
    \/ /\ f.type = "InvertedFilter"
       /\ f.inner.type \in {"RangeFilter", "ExactFilter"} \cup MultiTypes

\* The call that parses a filter text strictly: parse_filter on the command
\* line of mpiperfcli, the constructor of filtering.filters.
IsStrictParse(call) ==
    IF lib = "mpiperfcli" THEN call.op = "parse_filter"
    ELSE call.op = "DiscreteMultiRangeFilter" /\ ~call.tolerant

\* The text at hand was printed by a pure filter and has been parsed again.
PrintedAndParsed ==
    /\ fpc \in {"Built", "Raised", "Applied", "ApplyRaised"}
    /\ ~IsNone(origin)
    /\ IsPure(Get(origin))
    /\ IsStrictParse(via)

\* Parsing str(f) returned a filter with the ranges, the exact values and
\* the negation of f, and with the mask of f on the array it was applied to.
RoundTrips ==
    /\ fpc # "Raised"
    /\ RangesIn(Get(filter)) = RangesIn(Get(origin))
    /\ ExactIn(Get(filter)) = ExactIn(Get(origin))
    /\ Negated(Get(filter)) = Negated(Get(origin))
    /\ fpc = "Applied" =>
          /\ ~ApplyRaises(Get(origin), Get(data))
          /\ Get(mask) = Apply(Get(origin), Get(data))
    /\ fpc = "ApplyRaised" => ApplyRaises(Get(origin), Get(data))

\* C7: filter text round-trips: for every filter f built only from ranges
\* and exact values (open-ended ranges, negative bounds and a leading "!"
\* included), parsing str(f) yields a filter with the same ranges and exact
\* values, hence the same mask on every array.
C7_TextRoundTrips == PrintedAndParsed => RoundTrips

\* The same for the filters of mpiperfcli.filters alone.
RoundTrips_mpiperfcli == (lib = "mpiperfcli" /\ PrintedAndParsed) => RoundTrips

\* C8: on an int64 or uint64 array RangeFilter(min, max).apply(data) raises
\* nothing and is true exactly at the elements x with min <= x <= max, an
\* unset bound admitting every value of the array's type (never 0 in its
\* place), so that RangeFilter(None, None) gives the mask of Unfiltered on
\* every int64 and uint64 array.
C8_RangeFilterApply ==
    (/\ fpc \in {"Applied", "ApplyRaised"}
     /\ Get(filter).type = "RangeFilter"
     /\ Get(data).dtype \in IntegerTypes) =>
        \E f \in {Get(filter)}, x \in {Get(data)}, m \in {mask} :
            /\ fpc = "Applied"
            /\ Len(Get(m)) = Len(x.v)
            /\ \A i \in 1..Len(x.v) :
                  Get(m)[i] <=> /\ (IsNone(f.min) \/ Get(f.min) <= x.v[i])
                           /\ (IsNone(f.max) \/ x.v[i] <= Get(f.max))
            /\ \A i \in 1..Len(x.v) :
                  (IsNone(f.min) /\ x.v[i] < 0 /\ (IsNone(f.max) \/ x.v[i] <= Get(f.max)))
                     => Get(m)[i]
            /\ (IsNone(f.min) /\ IsNone(f.max)) => Get(m) = Unfiltered_apply(x)

\* RangeFilter(None, None) was applied to an int64 array that holds a
\* negative value.
C8_OpenRangeOnNegative ==
    /\ fpc = "Applied"
    /\ Get(filter).type = "RangeFilter"
    /\ IsNone(Get(filter).min)
    /\ IsNone(Get(filter).max)
    /\ Get(data).dtype = "int64"
    /\ \E i \in 1..Len(Get(data).v) : Get(data).v[i] < 0

\* No BadFilter in a chain of inversions.
RECURSIVE NonBad(_)
NonBad(f) ==
    /\ f.type # "BadFilter"
    /\ f.type = "InvertedFilter" => NonBad(f.inner)

\* C9: InvertedFilter(f).apply(x) is the elementwise NOT of f.apply(x), and
\* InvertedFilter(InvertedFilter(f)).apply(x) = f.apply(x), for every
\* non-Bad filter f and every array x; where f.apply(x) raises, the inverted
\* filter raises with it.
C9_InvertedFilterApply ==
    (/\ fpc \in {"Applied", "ApplyRaised"}
     /\ Get(filter).type = "InvertedFilter"
     /\ NonBad(Get(filter))) =>
        \E f \in {Get(filter)}, x \in {Get(data)}, m \in {mask} :
            IF ApplyRaises(f.inner, x) THEN fpc = "ApplyRaised"
            ELSE /\ fpc = "Applied"
                 /\ Len(Get(m)) = Len(x.v)
                 /\ \A i \in 1..Len(x.v) : Get(m)[i] = ~Apply(f.inner, x)[i]
                 /\ f.inner.type = "InvertedFilter" =>
                       Get(m) = Apply(f.inner.inner, x)

\* A twice inverted range was applied to an array of which it keeps one
\* element and drops another.
C9_DoubleInversionApplied ==
    /\ fpc = "Applied"
    /\ Get(filter).type = "InvertedFilter"
    /\ Get(filter).inner.type = "InvertedFilter"
    /\ Get(filter).inner.inner.type = "RangeFilter"
    /\ \E i \in 1..Len(Get(mask)), j \in 1..Len(Get(mask)) :
          Get(mask)[i] /\ ~Get(mask)[j]

\* The filter at hand is what state() of the filter widget returned for the
\* text at hand: asked directly, or through the checked tag filter in either
\* mode.
FromWidget ==
    /\ fpc \in {"Built", "Raised", "Applied", "ApplyRaised"}
    /\ \/ via.op = "widget"
       \/ via.op = "tag" /\ via.checked

\* C10: for a text that fails strict parsing, state() of the filter widget
\* raises nothing and returns a BadFilter, the tag filter returns it
\* un-inverted in include and in exclude mode, and its mask is true
\* everywhere.
C10_BadFilterHidesNothing ==
    (FromWidget /\ ~DiscreteMultiRangeFilter(text, FALSE).ok) =>
        /\ fpc \notin {"Raised", "ApplyRaised"}
        /\ filter = Some(BadFilter)
        /\ fpc = "Applied" =>
              /\ Len(Get(mask)) = Len(Get(data).v)
              /\ \A i \in 1..Len(Get(mask)) : Get(mask)[i]

\* The tag filter in exclude mode returned its state for a text that does
\* not parse, and the state was applied to an array of two elements.
C10_ExcludeModeBadText ==
    /\ fpc = "Applied"
    /\ via.op = "tag"
    /\ via.checked
    /\ via.mode = "EXCLUDE"
    /\ ~DiscreteMultiRangeFilter(text, FALSE).ok
    /\ Len(Get(data).v) = 2

\* The component names the files on disk hold, as written: the keys of
\* sent_count and the keys of sent_messages of every peer table of every
\* file of the run.
ComponentsWritten ==
    UNION {UNION {{kv[1] : kv \in Range(disk[s].peer[i][2].sent_count)}
                  \cup {kv[1] : kv \in Range(disk[s].peer[i][2].sent_messages)}
                  : i \in 1..Len(disk[s].peer)}
           : s \in 0..(meta.num_processes - 1)}

\* C11: after pass 1 the discovered component set, WorldMeta.components and
\* the keys of WorldData.components, is the union over all rank files and
\* all their peer records of the keys of sent_count and of sent_messages.
C11_ComponentsAreUnion ==
    pc \in {"Aggregating", "Ready"} =>
        /\ meta.components = ComponentsWritten
        /\ DOMAIN components = ComponentsWritten

\* Pass 1 is over for a run in which "pml" occurs in sent_messages and in no
\* sent_count, and "pml" was discovered.
C11_MessagesOnlyDiscovered ==
    /\ pc = "Aggregating"
    /\ "pml" \in DOMAIN components
    /\ \A s \in 0..(meta.num_processes - 1) :
          \A i \in 1..Len(disk[s].peer) :
              \A kv \in Range(disk[s].peer[i][2].sent_count) : kv[1] # "pml"

\* The LocalityType, the count of WorldMeta and the grouping of a plot that
\* belong to each level.
TypeOfLevel(level) ==
    CASE level = "node" -> "node"
      [] level = "numa" -> "NUMA"
      [] level = "socket" -> "socket"
      [] level = "core" -> "hwcore"

CountOfLevel(level) ==
    CASE level = "node" -> meta.num_nodes
      [] level = "numa" -> meta.num_numa
      [] level = "socket" -> meta.num_sockets
      [] level = "core" -> meta.num_cores

GroupByOfLevel(level) ==
    CASE level = "node" -> "Node"
      [] level = "numa" -> "NUMA Node"
      [] level = "socket" -> "Socket"
      [] level = "core" -> "Core"

\* Resolution of the level returned None for the files of the run.
Unresolved(level) ==
    get_localities_from_rfs([s \in 1..meta.num_processes |->
                                 FileOf(s - 1).general.localities],
                            TypeOfLevel(level)).kind = "none"

\* C12: when resolution of a locality kind returns None, the group count of
\* WorldMeta and every component's by_<level> stay None, and a request to
\* plot that grouping raises the "missing data" error and returns nothing,
\* rank-level data least of all.
C12_AbsentGroupingStaysAbsent ==
    pc = "Ready" =>
        \A level \in Levels :
            Unresolved(level) =>
                /\ IsNone(CountOfLevel(level))
                /\ \A c \in DOMAIN components : IsNone(ByLevel(components[c], level))
                /\ \A c \in DOMAIN components :
                      asked = Some(<<"group", c, GroupByOfLevel(level)>>) =>
                          /\ IsNone(ret)
                          /\ ~IsNone(error)
                          /\ Get(error).msg = "missing data"

\* A plot asked for the NUMA grouping of "mtl" in a run whose files carry no
\* NUMA claim and whose rank-level matrix of "mtl" is not empty.
C12_AbsentGroupingAsked ==
    /\ pc = "Ready"
    /\ asked = Some(<<"group", "mtl", "NUMA Node">>)
    /\ Unresolved("numa")
    /\ \E s \in 0..(meta.num_processes - 1), r \in 0..(meta.num_processes - 1) :
          components["mtl"].by_rank.total_sent[s][r] > 0

\* The peer ids outside 0..process_count-1 that the files of the run hold as
\* peer.<id> keys, each with the rank of its file: <<rank, id>>.
OutOfRangePeers ==
    {p \in UNION {{<<s, PyInt(disk[s].peer[i][1]).v>> : i \in 1..Len(disk[s].peer)}
                  : s \in (0..(meta.num_processes - 1)) \cap DOMAIN disk} :
        p[2] < 0 \/ p[2] >= meta.num_processes}

\* C13: a peer id outside 0..process_count-1, negative or too large, never
\* contributes to a matrix cell: when a rank file holds one, loading fails
\* with the error that names the rank and the peer, and no aggregate is
\* exposed.
C13_OutOfRangePeerFailsLoading ==
    (pc \in {"Ready", "Failed"} /\ OutOfRangePeers # {}) =>
        /\ pc # "Ready"
        /\ (Get(error).msg = "Invalid peer" =>
               <<Get(error).names[2], Get(error).names[1]>> \in OutOfRangePeers)

\* The positions 0..process_count-1 at which the file declares an own_rank
\* that is not its position.
Misplaced ==
    {i \in (0..(meta.num_processes - 1)) \cap DOMAIN disk :
        disk[i].general.own_rank # i}

\* C14: loading reaches Ready only if every file at a position i in
\* 0..process_count-1 declares own_rank = i; when a file declares another
\* own_rank, construction fails in pass 1, before a matrix is allocated or
\* written.
C14_OwnRankIsPosition ==
    Misplaced # {} =>
        /\ pc \notin {"Aggregating", "Ready"}
        /\ components = <<>>
        /\ pc = "Failed" => rank <= MinOf(Misplaced)

\* Pass 1 failed on the assertion, with no matrix allocated.
C14_AssertionFailed ==
    /\ pc = "Failed"
    /\ Misplaced # {}
    /\ Get(error).kind = "AssertionError"
    /\ rank = MinOf(Misplaced)

\* The filter at hand, or the ValueError, is what strict parsing of the text
\* at hand gave.
StrictlyParsed ==
    /\ fpc \in {"Built", "Raised", "Applied", "ApplyRaised"}
    /\ via.op \in {"MultiRangeFilter", "DiscreteMultiRangeFilter", "parse_filter"}
    /\ ~via.tolerant

\* The comma-separated segments of the text that was parsed, the "!" that
\* parse_filter takes off left out.
SegmentsParsed ==
    IF text = <<>> THEN <<>>
    ELSE IF via.op = "parse_filter" /\ Head(text) = "!"
    THEN (IF Tail(text) = <<>> THEN <<>> ELSE Split(Tail(text), ","))
    ELSE Split(text, ",")

\* The two bounds of a range segment "[a;b]" as written, <<>> for a segment
\* of another form.
BoundsWritten(seg) ==
    IF Len(seg) >= 2 /\ seg[1] = "[" /\ seg[Len(seg)] = "]"
          /\ Len(Split(SubSeq(seg, 2, Len(seg) - 1), ";")) = 2
    THEN Split(SubSeq(seg, 2, Len(seg) - 1), ";")
    ELSE <<>>

\* A range segment with positive infinity below or negative infinity above.
WrongInfinity(seg) ==
    /\ BoundsWritten(seg) # <<>>
    /\ \/ BoundsWritten(seg)[1] \in {INF, PLUS_INF}
       \/ BoundsWritten(seg)[2] = MINUS_INF

\* A decimal integer with an optional sign.
IsIntegerText(s) ==
    /\ s # <<>>
    /\ IF Head(s) \in {"+", "-"} THEN Tail(s) # <<>> /\ AllDigits(Tail(s))
       ELSE AllDigits(s)

\* A range segment whose bounds are integers or the infinities allowed at
\* their end.
ProperRange(seg) ==
    /\ BoundsWritten(seg) # <<>>
    /\ BoundsWritten(seg)[1] = MINUS_INF \/ IsIntegerText(BoundsWritten(seg)[1])
    /\ BoundsWritten(seg)[2] \in {INF, PLUS_INF} \/ IsIntegerText(BoundsWritten(seg)[2])

\* The bounds <<min, max>> a proper range segment stands for.
BoundsMeant(seg) ==
    <<IF BoundsWritten(seg)[1] = MINUS_INF THEN None
      ELSE Some(PyInt(BoundsWritten(seg)[1]).v),
      IF BoundsWritten(seg)[2] \in {INF, PLUS_INF} THEN None
      ELSE Some(PyInt(BoundsWritten(seg)[2]).v)>>

\* C15: strict parsing of multi-range text raises ValueError for every range
\* segment whose lower bound is "inf" or "+inf" and for every one whose
\* upper bound is "-inf", and takes "-inf" below and "inf" or "+inf" above
\* for an unset bound.
C15_InfinitiesOfTheWrongSign ==
    StrictlyParsed =>
        /\ (\E i \in 1..Len(SegmentsParsed) : WrongInfinity(SegmentsParsed[i]))
              => fpc = "Raised"
        /\ (\A i \in 1..Len(SegmentsParsed) : ProperRange(SegmentsParsed[i]))
              => /\ fpc # "Raised"
                 /\ RangesIn(Get(filter)) =
                       [i \in 1..Len(SegmentsParsed) |-> BoundsMeant(SegmentsParsed[i])]

\* Strict parsing of "[inf;5]" by mpiperfcli.filters raised.
C15_PositiveInfinityBelowRaised ==
    /\ fpc = "Raised"
    /\ lib = "mpiperfcli"
    /\ StrictlyParsed
    /\ text = RangeText(INF, IntToStr(5))

\* The multi-range filter a parsing call built: the filter itself, or the
\* one parse_filter wrapped in an InvertedFilter.
MultiRangeBuilt ==
    IF Get(filter).type = "InvertedFilter" THEN Get(filter).inner ELSE Get(filter)

\* The segment a RangeFilter or an ExactFilter records is the index, in the
\* full split of the text, of the segment that reads as that filter does.
RecordsItsSegment(f) ==
    /\ ~IsNone(f.segment)
    /\ Get(f.segment) \in 0..(Len(SegmentsParsed) - 1)
    /\ \E seg \in {SegmentsParsed[Get(f.segment) + 1]} :
          IF f.type = "RangeFilter"
          THEN /\ BoundsWritten(seg) # <<>>
               /\ BoundOf(BoundsWritten(seg)[1], {MINUS_INF}) = Ok(f.min)
               /\ BoundOf(BoundsWritten(seg)[2], {INF, PLUS_INF}) = Ok(f.max)
          ELSE PyInt(seg) = Ok(f.n)

\* C16: every RangeFilter and every ExactFilter of a parsed multi-range
\* filter records the index of its segment in the full split of the text,
\* skipped segments counted: "5,[10;20],-3" gives exact 5 of segment 0,
\* range [10;20] of segment 1 and exact -3 of segment 2.
C16_SegmentIsIndexInText ==
    (/\ fpc \in {"Built", "Applied", "ApplyRaised"}
     /\ via.op \in {"MultiRangeFilter", "DiscreteMultiRangeFilter", "parse_filter"})
    => /\ \A i \in 1..Len(MultiRangeBuilt.ranges) :
             RecordsItsSegment(MultiRangeBuilt.ranges[i])
       /\ \A i \in 1..Len(MultiRangeBuilt.exact) :
             RecordsItsSegment(MultiRangeBuilt.exact[i])

\* A token as the filters print it: a decimal integer without a plus sign or
\* leading zeros, or a range "[a;b]" of two such integers.
IsCanonicalInteger(s) == PyInt(s).ok /\ IntToStr(PyInt(s).v) = s

IsCanonicalToken(seg) ==
    \/ IsCanonicalInteger(seg)
    \/ /\ BoundsWritten(seg) # <<>>
       /\ IsCanonicalInteger(BoundsWritten(seg)[1])
       /\ IsCanonicalInteger(BoundsWritten(seg)[2])

\* C17: str() of a multi-range filter parsed from canonical tokens is the
\* text that was parsed, the tokens in the order of their segments whatever
\* the interleaving of ranges and exact values: a step that prints such a
\* filter leaves the text as it was.
C17_StrKeepsSegmentOrder ==
    [][(/\ fpc = "Built"
        /\ fpc' = "Printed"
        /\ via.op \in {"MultiRangeFilter", "DiscreteMultiRangeFilter"}
        /\ text # <<>>
        /\ \A i \in 1..Len(Split(text, ",")) : IsCanonicalToken(Split(text, ",")[i]))
       => text' = text]_vars

\* The peers a decoded file of rank s records traffic of component c for:
\* those with a size entry of c that has a tag with occurrences.
PeersCommunicatedWith(rf, c) ==
    {r \in Keys(rf.peers) :
        \E e \in Range(EntriesFor(rf, c, r)) :
            \E t \in 1..Len(e.tags) : e.tags[t][2] > 0}

\* C18: the peers array of every SizeData and TagData table of a rank and a
\* component c holds exactly the peers the rank exchanged traffic of c with,
\* so no row of data is all zero: a peer the rank file lists without traffic
\* of c is not in it.
C18_PeersAreThoseCommunicatedWith ==
    \A key \in DOMAIN tables :
        \E t \in {tables[key]} :
            /\ Range(t.peers) = PeersCommunicatedWith(FileOf(key[3]), key[2])
            /\ \A p \in 1..Len(t.data) : \E i \in 1..Len(t.data[p]) : t.data[p][i] # 0

\* The occurrences of one tag among size entries, summed over the entries:
\* what the tag map of each entry holds for the tag, 0 where it is absent.
OccurrencesOfTag(entries, tag) ==
    SumSeq([k \in 1..Len(entries) |->
               IF HasKey(entries[k].tags, tag) THEN Lookup(entries[k].tags, tag)
               ELSE 0])

\* C19: in the table TagData.from_rf returns for a rank and a component,
\* every tag the rank sent within the component has a column, and
\* data[p][index(t)] is the sum of the occurrences recorded for tag t over
\* all callsites and all size entries sent to peers[p]: counts of one tag
\* are added, never overwritten.
C19_TagCountsAreSummed ==
    \A key \in DOMAIN tables :
        key[1] = "tags" =>
            \E t \in {tables[key]}, rf \in {FileOf(key[3])} :
                /\ Range(t.occuring) =
                      UNION {UNION {Keys(e.tags) : e \in Range(EntriesFor(rf, key[2], r))}
                             : r \in Keys(rf.peers)}
                /\ Len(t.data) = Len(t.peers)
                /\ \A p \in 1..Len(t.peers) :
                      /\ Len(t.data[p]) = Len(t.occuring)
                      /\ \A i \in 1..Len(t.occuring) :
                            t.data[p][i] =
                                OccurrencesOfTag(EntriesFor(rf, key[2], t.peers[p]),
                                                 t.occuring[i])

\* The table of tags of rank 0 and "mtl" is held for a file that records tag
\* 7 once at callsite 1 and twice at callsite 2, and holds 3 for it.
C19_TagOfTwoCallsites ==
    /\ <<"tags", "mtl", 0>> \in DOMAIN tables
    /\ disk[0].peer[1][2] = PeerTwoCallsites
    /\ tables[<<"tags", "mtl", 0>>].occuring = <<7, 9>>
    /\ tables[<<"tags", "mtl", 0>>].data = <<<<3, 1>>>>

\* Every file holds one claim of the kind asked for, the claim of a rank
\* names the rank itself and ranks that have a file, and the ranks a claim
\* names claim the same set of ranks, in whatever order and with whatever
\* repeats each file writes it.
ConsistentAsSets ==
    \A r \in 0..(Len(loc_decoded) - 1) :
        /\ Len(ClaimsOf(r)) = 1
        /\ r \in Range(ClaimsOf(r)[1].peers)
        /\ \A p \in Range(ClaimsOf(r)[1].peers) :
              /\ p < Len(loc_decoded)
              /\ Len(ClaimsOf(p)) = 1
              /\ Range(ClaimsOf(p)[1].peers) = Range(ClaimsOf(r)[1].peers)

\* C20: the peers of locality claims are compared as sets: files whose
\* claims of one kind name the same ranks in another order, with repeated
\* ids, or as a range in one file and as explicit ids in another, are
\* consistent, and resolve to groups that are those sets, each member rank
\* held once.
C20_PeersComparedAsSets ==
    (loc_pc = "Resolved" /\ ConsistentAsSets) =>
        /\ Get(loc_result).kind = "groups"
        /\ \A r \in 0..(Len(loc_decoded) - 1) :
              /\ Cardinality(PlacesOf(Get(loc_result).groups, r)) = 1
              /\ \A g \in 1..Len(Get(loc_result).groups) :
                    r \in Range(Get(loc_result).groups[g]) =>
                        Range(Get(loc_result).groups[g]) = Range(ClaimsOf(r)[1].peers)

\* The ranks whose file holds more than one claim of the kind asked for.
DuplicateClaimRanks == {r \in 0..(Len(loc_decoded) - 1) : Len(ClaimsOf(r)) > 1}

\* C21: when some rank file holds more than one claim of one kind,
\* resolution of that kind ends with the error of the duplicate, and the
\* rank the error names is one whose file holds the duplicate, whether it
\* was met as the first uncovered rank or as a member of another rank's
\* peers.
C21_DuplicateClaimNamesItsRank ==
    (loc_pc = "Resolved" /\ DuplicateClaimRanks # {}) =>
        /\ Get(loc_result).kind = "error"
        /\ Get(loc_result).err.msg = "found multiple times"
        /\ Get(loc_result).err.names[1] \in DuplicateClaimRanks

\* Strict parsing of one segment alone, by the constructor of the library at
\* hand.
SegmentAlone(seg) ==
    IF lib = "mpiperfcli" THEN MultiRangeFilter(seg, FALSE)
    ELSE DiscreteMultiRangeFilter(seg, FALSE)

\* A segment that strict parsing alone takes: the empty segment is taken by
\* none of the parsers, though the empty text is.
IsWellFormed(seg) == seg # <<>> /\ SegmentAlone(seg).ok

\* The ranges, then the exact values, that the well-formed segments among
\* segs[i..] give when each is parsed alone, in the order of the segments.
RECURSIVE RangesOfWellFormed(_, _)
RangesOfWellFormed(segs, i) ==
    IF i > Len(segs) THEN <<>>
    ELSE (IF IsWellFormed(segs[i]) THEN RangesIn(SegmentAlone(segs[i]).f) ELSE <<>>)
         \o RangesOfWellFormed(segs, i + 1)

RECURSIVE ExactOfWellFormed(_, _)
ExactOfWellFormed(segs, i) ==
    IF i > Len(segs) THEN <<>>
    ELSE (IF IsWellFormed(segs[i]) THEN ExactIn(SegmentAlone(segs[i]).f) ELSE <<>>)
         \o ExactOfWellFormed(segs, i + 1)

\* C25: tolerant parsing never raises and returns the filters of the
\* well-formed segments, those that strict parsing of each segment alone
\* gives, every malformed segment skipped; strict parsing of a text with a
\* malformed segment raises ValueError.
C25_TolerantSkipsMalformed ==
    (/\ fpc \in {"Built", "Raised", "Applied", "ApplyRaised"}
     /\ via.op \in {"MultiRangeFilter", "DiscreteMultiRangeFilter"})
    => IF via.tolerant
       THEN /\ fpc # "Raised"
            /\ RangesIn(Get(filter)) = RangesOfWellFormed(SegmentsParsed, 1)
            /\ ExactIn(Get(filter)) = ExactOfWellFormed(SegmentsParsed, 1)
       ELSE (\E i \in 1..Len(SegmentsParsed) : ~IsWellFormed(SegmentsParsed[i]))
                => fpc = "Raised"

\* Tolerant parsing of "f,5" by mpiperfcli.filters gave the exact value 5
\* alone.
C25_MalformedFirstSkipped ==
    /\ fpc = "Built"
    /\ via.op = "MultiRangeFilter"
    /\ via.tolerant
    /\ text = <<"f", ",">> \o IntToStr(5)
    /\ ExactIn(Get(filter)) = <<5>>
    /\ RangesIn(Get(filter)) = <<>>

\* C26: once the metadata are parsed, whatever the number of processes the
\* run declares, the cache of decoded rank files holds the record of rank
\* 0, and a later open_rank(0) is served from it, not from pc_data_0.toml.
C26_RankZeroIsRetained ==
    pc \in {"MetadataParsed", "Aggregating", "Ready"} =>
        /\ ~IsNone(cache)
        /\ HasKey(Get(cache), 0)
        /\ Lookup(Get(cache), 0) = FileOf(0)
        /\ (opened[1] = 0 /\ (pc # "MetadataParsed" \/ rank > 0))
              => opened[2] = "cache"

\* The peer records <<rank, index, component>> that lack a sent_count entry
\* for a component the run holds.
CountsLacking ==
    UNION {{t \in {s} \X (1..Len(disk[s].peer)) \X ComponentsWritten :
               t[3] \notin {kv[1] : kv \in Range(disk[s].peer[t[2]][2].sent_count)}}
           : s \in DOMAIN disk}

\* The run has a file for every rank it declares, every file is at its
\* place and every peer has a rank of the run.
OtherwiseValid ==
    /\ DOMAIN disk = 0..(meta.num_processes - 1)
    /\ Misplaced = {}
    /\ OutOfRangePeers = {}

\* C27: pass 2 completes for an otherwise valid run in which a peer record
\* lacks a sent_count entry for a discovered component: no lookup error ends
\* the load, and the count that is missing reads as 0 messages.
C27_MissingCountIsZero ==
    (pc \in {"Ready", "Failed"} /\ OtherwiseValid /\ CountsLacking # {}) =>
        /\ pc = "Failed" => Get(error).kind # "KeyError"
        /\ pc = "Ready" =>
              \A t \in CountsLacking :
                  components[t[3]].by_rank.msgs_sent[t[1]]
                      [PyInt(disk[t[1]].peer[t[2]][1]).v] = 0

\* Rank a's claim lists rank b, and the file of rank b holds no claim of the
\* kind asked for.
ListsUnclaimed(a, b) ==
    /\ Len(ClaimsOf(a)) = 1
    /\ b \in Range(ClaimsOf(a)[1].peers)
    /\ ClaimsOf(b) = <<>>

\* C28: resolution of a kind returns None only when no rank file holds a
\* claim of the kind; when the claim of a rank a lists a rank b whose file
\* holds no such claim, resolution raises the inconsistency error, whether
\* a < b or a > b.
C28_NoneOnlyWithoutClaims ==
    (loc_pc = "Resolved" /\ ClaimsWellFormed) =>
        /\ Get(loc_result).kind = "none" =>
              \A r \in 0..(Len(loc_decoded) - 1) : ClaimsOf(r) = <<>>
        /\ (\E a \in 0..(Len(loc_decoded) - 1), b \in 0..(Len(loc_decoded) - 1) :
                ListsUnclaimed(a, b))
              => /\ Get(loc_result).kind = "error"
                 /\ Get(loc_result).err.msg = "Locality differs"

\* C29: the table of sizes of a rank s and a component agrees with the
\* matrix of the component: for every index p of its peers, the sum over i
\* of data[p][i] * occuring_sizes[i] is by_rank.total_sent[s][peers[p]].
C29_SizeTableAgreesWithMatrix ==
    \A key \in DOMAIN tables :
        key[1] = "sizes" =>
            \E t \in {tables[key]} :
                \A p \in 1..Len(t.peers) :
                    SumSeq([i \in 1..Len(t.occuring) |-> t.data[p][i] * t.occuring[i]])
                        = components[key[2]].by_rank.total_sent[key[3]][t.peers[p]]

\* The table of sizes of rank 0 and "mtl" is held for the scenario, 3
\* messages of 64 bytes and 2 of 128, and the matrix holds 448 bytes for
\* the peer.
C29_ScenarioAgrees ==
    /\ <<"sizes", "mtl", 0>> \in DOMAIN tables
    /\ meta.num_processes = 2
    /\ tables[<<"sizes", "mtl", 0>>].peers = <<1>>
    /\ tables[<<"sizes", "mtl", 0>>].data = <<<<3, 2>>>>
    /\ components["mtl"].by_rank.total_sent[0][1] = 448

\* The table from_rf computes on a fresh decode of the file of the rank of a
\* key <<"sizes" | "tags", component, rank>>.
FreshTable(key) ==
    IF key[1] = "sizes" THEN SizeData_from_rf(FileOf(key[3]), key[2]).v
    ELSE TagData_from_rf(FileOf(key[3]), key[2]).v

\* The values a file records for a component: the sizes of its size entries
\* (what = "sizes") or the tags of their tag maps (what = "tags"), over all
\* peers.
ValuesRecorded(what, rf, c) ==
    UNION {UNION {IF what = "sizes" THEN {e.size} ELSE Keys(e.tags)
                  : e \in Range(EntriesFor(rf, c, r))}
           : r \in Keys(rf.peers)}

\* t is the table of the key read off the file itself: the rank of the key,
\* the peers in the order of the file, the values recorded in ascending order
\* and for every peer and value the occurrences the file records.
IsTableOfFile(t, key) ==
    \E rf \in {FileOf(key[3])} :
        /\ t.rank = key[3]
        /\ t.peers = [p \in 1..Len(rf.peers) |-> rf.peers[p][1]]
        /\ \A i \in 1..(Len(t.occuring) - 1) : t.occuring[i] < t.occuring[i + 1]
        /\ Range(t.occuring) = ValuesRecorded(key[1], rf, key[2])
        /\ DOMAIN t.data = 1..Len(t.peers)
        /\ \A p \in 1..Len(t.peers) :
              /\ DOMAIN t.data[p] = 1..Len(t.occuring)
              /\ \A i \in 1..Len(t.occuring) :
                    t.data[p][i] =
                        IF key[1] = "sizes"
                        THEN OccurrencesOfSize(EntriesFor(rf, key[2], t.peers[p]),
                                               t.occuring[i])
                        ELSE OccurrencesOfTag(EntriesFor(rf, key[2], t.peers[p]),
                                              t.occuring[i])

\* C23: the cache of derived tables is transparent: whatever calls of
\* sizes(r) and tags(r) and whatever evictions came before, and whether the
\* rank's record was served from the cache of rank files or read from disk
\* because that cache is off, the table a call returns is the one held for
\* the component and rank asked for, and every table held is the table
\* from_rf computes on a fresh decode of the rank's file, with the rank, the
\* peers, the occurring values and the data the file itself records.
C23_TablesAreFreshTables ==
    /\ \A key \in DOMAIN tables :
          /\ tables[key] = FreshTable(key)
          /\ IsTableOfFile(tables[key], key)
    /\ (pc = "Ready" /\ ~IsNone(ret)) =>
          /\ Get(asked) \in DOMAIN tables
          /\ Get(ret) = tables[Get(asked)]

\* In a run loaded without the cache of rank files, tags("mtl", 0) missed
\* while the table of sizes of the last rank was held, read the file of rank
\* 0 from disk and returned its table of tags.
C23_TableWithoutRankCache ==
    /\ pc = "Ready"
    /\ cache = None
    /\ meta.num_processes = RANK_FILE_CACHE_THRESHOLD
    /\ opened = <<0, "disk">>
    /\ asked = Some(<<"tags", "mtl", 0>>)
    /\ DOMAIN tables = {<<"tags", "mtl", 0>>,
                        <<"sizes", "mtl", RANK_FILE_CACHE_THRESHOLD - 1>>}
    /\ ret = Some(tables[<<"tags", "mtl", 0>>])
    /\ Get(ret).occuring = <<7, 9>>
    /\ Get(ret).data = <<<<3, 3>>>>

\* C30: a rank plot object is built only for a rank in 0..num_processes-1, one
\* with a rank file and a row in by_rank, and every other rank parameter of a
\* rank plot is refused with the 'A valid rank needs to be specified' error.
PlotAsked == pc = "Ready" /\ asked # None /\ Get(asked).plot \in RANK_PLOTS

IsRankParam(param, n) ==
    /\ PyInt(param).ok
    /\ PyInt(param).v \in 0..(n - 1)

C30_OutOfRangeRankRefused ==
    PlotAsked =>
        IF IsRankParam(Get(asked).param, meta.num_processes)
        THEN TRUE
        ELSE /\ Get(asked).obj = None
             /\ error = NoValidRank

\* C22: once construction has returned, a step changes neither WorldMeta nor
\* the component set nor any matrix or total of a component; the caches, the
\* plot held and what was drawn may change.
C22_ReadyIsReadOnly ==
    [][pc = "Ready" => /\ pc' = "Ready"
                       /\ meta' = meta
                       /\ order' = order
                       /\ components' = components]_vars

\* A plot with a table has been drawn under a count filter that clamps.
C22_ClampedPlotDrawn ==
    /\ pc = "Ready"
    /\ asked # None
    /\ Get(asked).obj # None
    /\ ret # None
    /\ Get(ret).kind = "bar3d"
    /\ \E i \in 1..Len(Get(ret).bars) :
          /\ Get(ret).bars[i].hidden
          /\ Get(ret).bars[i].dz = 2

\* The line parses strictly as a multi-range filter of the module in use.
ParsesStrictly(t) == MultiRangeClass(lib, t, FALSE).ok

\* The strict reading of the line t takes the value x.
Takes(t, x) == Apply(MultiRangeClass(lib, t, FALSE).f, Array("int64", <<x>>))[1]

\* The values the two readings are compared at: the tags of the dialog and
\* the values around them.
ValuesTried == (COLLECTIVES[Len(COLLECTIVES)] - 2)..(COLLECTIVES[1] + 2)

\* _collectives_unchecked runs in this step: a box of the open dialog is
\* cleared by the user.
Unchecking ==
    /\ fpc = "Open"
    /\ fpc' = "Open"
    /\ via'.op = "_collectives_unchecked"
    /\ \E i \in 1..Len(COLLECTIVES) : Get(mask)[i] /\ ~Get(mask')[i]

UncheckedTag == COLLECTIVES[CHOOSE i \in 1..Len(COLLECTIVES) : Get(mask)[i] /\ ~Get(mask')[i]]

\* RangeFilter.remove_exact runs in this step.
RemovingExact == fpc = "Start" /\ fpc' = "Removed"

\* C24: clearing the box of tag n on a line that parses strictly leaves a
\* line that parses strictly again and takes the values the old line took
\* except n; and the text RangeFilter.remove_exact(n) returns for a range
\* parses strictly and takes the values of the range except n.
C24_UncheckingEditsExactly ==
    [][/\ (Unchecking /\ ParsesStrictly(text)) =>
             /\ ParsesStrictly(text')
             /\ \A x \in ValuesTried :
                   Takes(text', x) = (Takes(text, x) /\ x # UncheckedTag)
       /\ RemovingExact =>
             \A i \in 1..MaxBoxes :
                text' = RangeFilter_remove_exact(Get(filter'), COLLECTIVES[i]) =>
                   /\ ParsesStrictly(text')
                   /\ \A x \in ValuesTried :
                         Takes(text', x) =
                            (/\ Apply(Get(filter'), Array("int64", <<x>>))[1]
                             /\ x # COLLECTIVES[i])]_vars

====
